---- MODULE Spec2Model ----
(***************************************************************************)
(* A model of the overlay compositing engine of slidechange                *)
(* (src/src/lib/overlayRenderer.ts): renderTextOverlay resolves the        *)
(* overlay's rect to integer pixels, reconstructs the background and       *)
(* paints the fitted text on a 2D canvas context.                          *)
(*                                                                         *)
(* Numbers.  JavaScript numbers are modelled by exact integers in a fixed  *)
(* point: a length of p pixels is the integer p * Unit.  Font sizes are    *)
(* multiples of a quarter pixel, line heights multiples of a tenth, glyph  *)
(* advances multiples of a quarter em; with these inputs every product and *)
(* every halving the code computes is an integer number of units.          *)
(***************************************************************************)
EXTENDS Integers, Sequences, FiniteSets, TLC

VARIABLES
  image,    \* the decoded slide image drawn on the canvas before the overlays
  canvas,   \* ctx.canvas: [width, height, data], data[<<x, y>>] = <<r, g, b, a>>
  ctx,      \* drawing state of the context: [font, fillStyle, textBaseline, textAlign]
  kern,     \* the host's kerning of the pair "AV", in quarter ems (0: none)
  overlay,  \* the TextOverlay passed to the last renderTextOverlay
  rect,     \* the IntRect toIntRect resolved in that call
  calls,    \* the host calls of that call, in order
  entry,    \* the drawing state on entry to that call
  fresh,    \* the pixels the same call leaves on a freshly created context
  phase,    \* "image": slide image drawn; "rendered": overlay rendered on it
  fit,      \* the locals of drawText while its autofit loop runs step by step
  measure,  \* the last measureLineWidth call: [text, letterSpacing, width]
  norm,     \* the last value put through the style normalizers, and the results
  slide,    \* the slide the call sites compose: [overlays]; its image is `image`
  sites,    \* per call site: [pc, data, ctx], the canvas it composes on
  form,     \* the Sidebar's state, and the overlay it committed last
  app,      \* the App's state: slides with their overlays, active slide, selection
  editor,   \* the EditorCanvas's state: interaction modes, image, last composite
  settings  \* the App's session and API-key settings state

\* the variables of the editing UI, of the call sites and of the normalizer runs
uiVars == <<norm, slide, sites, form, app, editor, settings>>

vars ==
  <<image, canvas, ctx, kern, overlay, rect, calls, entry, fresh, phase, fit, measure,
    norm, slide, sites, form, app, editor, settings>>

\* units per pixel
Unit == 16 * 10

Px(n) == n * Unit

Min(a, b) == IF a <= b THEN a ELSE b

Max(a, b) == IF a >= b THEN a ELSE b

\* Math.floor and Math.ceil of a length, in whole pixels
Floor(v) == v \div Unit

Ceil(v) == -((-v) \div Unit)

clamp(value, min, max) == Max(min, Min(max, value))

\* the element of a one-element set.  In Only({ e : x \in {v} }) the value of
\* v is computed once, however often e uses x: a statement's result bound to
\* a local.
Only(s) == CHOOSE x \in s : TRUE

(***************************************************************************)
(* Region resolver                                                         *)
(***************************************************************************)
\* the mutant clamps the right and bottom edges but not the origin
toIntRectOriginUnclamped(r, canvasWidth, canvasHeight) ==
  LET x == Floor(r.x)
      y == Floor(r.y)
      right == clamp(Ceil(r.x + r.width), 0, canvasWidth)
      bottom == clamp(Ceil(r.y + r.height), 0, canvasHeight)
  IN [x |-> x, y |-> y, width |-> Max(0, right - x), height |-> Max(0, bottom - y)]

toIntRect(r, canvasWidth, canvasHeight) ==
  LET x == clamp(Floor(r.x), 0, Max(0, canvasWidth - 1))
      y == clamp(Floor(r.y), 0, Max(0, canvasHeight - 1))
      right == clamp(Ceil(r.x + r.width), 0, canvasWidth)
      bottom == clamp(Ceil(r.y + r.height), 0, canvasHeight)
  IN [x |-> x, y |-> y, width |-> Max(0, right - x), height |-> Max(0, bottom - y)]

(***************************************************************************)
(* Values.  A JavaScript number field is [k |-> "num", v |-> n], NaN is    *)
(* [k |-> "nan"], a missing field is [k |-> "undef"].  A string is a       *)
(* sequence of one-character strings; the empty sequence also stands for a *)
(* missing string (both are falsy).                                        *)
(***************************************************************************)
Num(n) == [k |-> "num", v |-> n, s |-> <<>>]

NaN == [k |-> "nan", v |-> 0, s |-> <<>>]

Undefined == [k |-> "undef", v |-> 0, s |-> <<>>]

\* a string value, where a field may hold a number or a string
Str(s) == [k |-> "str", v |-> 0, s |-> s]

IsNumber(value) == value.k = "num"

HexLower == <<"0", "1", "2", "3", "4", "5", "6", "7", "8", "9", "a", "b", "c", "d", "e", "f">>

HexUpper == <<"0", "1", "2", "3", "4", "5", "6", "7", "8", "9", "A", "B", "C", "D", "E", "F">>

IsHexDigit(c) == \E i \in 1..16 : HexLower[i] = c \/ HexUpper[i] = c

HexValue(c) == (CHOOSE i \in 1..16 : HexLower[i] = c \/ HexUpper[i] = c) - 1

IsSpace(c) == c \in {" ", "\t", "\n"}

RECURSIVE TrimStart(_)
TrimStart(s) == IF s # <<>> /\ IsSpace(Head(s)) THEN TrimStart(Tail(s)) ELSE s

RECURSIVE TrimEnd(_)
TrimEnd(s) ==
  IF s # <<>> /\ IsSpace(s[Len(s)]) THEN TrimEnd(SubSeq(s, 1, Len(s) - 1)) ELSE s

\* String.prototype.trim
Trim(s) == TrimEnd(TrimStart(s))

Digits == <<"0", "1", "2", "3", "4", "5", "6", "7", "8", "9">>

IsDigit(c) == \E i \in 1..10 : Digits[i] = c

DigitValue(c) == (CHOOSE i \in 1..10 : Digits[i] = c) - 1

\* the longest prefix of s made of digits
RECURSIVE DigitsPrefix(_)
DigitsPrefix(s) ==
  IF s # <<>> /\ IsDigit(Head(s)) THEN <<Head(s)>> \o DigitsPrefix(Tail(s)) ELSE <<>>

\* the number a sequence of digits writes, after the digits read so far
RECURSIVE DecimalValue(_, _)
DecimalValue(digits, acc) ==
  IF digits = <<>> THEN acc
  ELSE DecimalValue(Tail(digits), 10 * acc + DigitValue(Head(digits)))

\* the value of the digits after a decimal point, in units: digit i counts
\* Unit / 10^i, rounded down (exact for the first two digits)
RECURSIVE FractionValue(_, _)
FractionValue(digits, scale) ==
  IF digits = <<>> THEN 0
  ELSE (DigitValue(Head(digits)) * scale) \div 10
         + FractionValue(Tail(digits), scale \div 10)

\* a string without its sign, and the sign
Unsigned(t) == IF t # <<>> /\ t[1] \in {"-", "+"} THEN Tail(t) ELSE t

SignOf(t) == IF t # <<>> /\ t[1] = "-" THEN -1 ELSE 1

\* Number.parseInt(s, 10): leading white space, a sign, then digits up to the
\* first character that is none; NaN without a digit
ParseInt(s) ==
  LET t == TrimStart(s)
      digits == DigitsPrefix(Unsigned(t))
  IN IF digits = <<>> THEN NaN ELSE Num(SignOf(t) * DecimalValue(digits, 0))

\* Number.parseFloat(s), in units, of a string without exponent: leading
\* white space, a sign, digits, and a point with digits; NaN without a digit
ParseFloat(s) ==
  LET t == TrimStart(s)
      u == Unsigned(t)
      whole == DigitsPrefix(u)
      rest == SubSeq(u, Len(whole) + 1, Len(u))
      fraction == IF rest # <<>> /\ rest[1] = "." THEN DigitsPrefix(Tail(rest)) ELSE <<>>
  IN IF whole = <<>> /\ fraction = <<>> THEN NaN
     ELSE Num(SignOf(t) * (DecimalValue(whole, 0) * Unit + FractionValue(fraction, Unit)))

\* /^#([0-9a-fA-F]{n})$/.test(v)
IsHex(v, n) ==
  /\ Len(v) = n + 1
  /\ v[1] = "#"
  /\ \A i \in 2..(n + 1) : IsHexDigit(v[i])

White == <<"#", "f", "f", "f", "f", "f", "f">>

Black == <<"#", "0", "0", "0", "0", "0", "0">>

(***************************************************************************)
(* Style normalizer                                                        *)
(***************************************************************************)
normalizeHexColor(value, fallback) ==
  LET v == Trim(value)
  IN IF IsHex(v, 6) THEN v
     ELSE IF IsHex(v, 3) THEN <<"#", v[2], v[2], v[3], v[3], v[4], v[4]>>
     ELSE fallback

\* Number.parseInt(String(value), 10): of a string its parse, of NaN NaN, of
\* an integer-valued number the number itself
ParseIntOf(value) ==
  IF value.k = "str" THEN ParseInt(value.s)
  ELSE IF value.k = "num" THEN Num(value.v)
  ELSE NaN

\* Math.round(parsed / 100) * 100: Math.round rounds a half up
RoundToHundred(parsed) == ((parsed + 50) \div 100) * 100

normalizeWeight(value) ==
  LET parsed == IF value.k = "undef" THEN Num(500) ELSE ParseIntOf(value)
  IN IF parsed.k = "nan" THEN 500
     ELSE clamp(RoundToHundred(parsed.v), 100, 900)

\* in tenths
normalizeLineHeight(value) ==
  IF ~IsNumber(value) THEN 12 ELSE clamp(value.v, 8, 24)

\* in units
normalizeLetterSpacing(value) ==
  IF ~IsNumber(value) THEN 0 ELSE clamp(value.v, Px(-2), Px(12))

\* String.prototype.toUpperCase of a hex colour
ToUpperCase(v) ==
  [i \in 1..Len(v) |->
     IF \E j \in 1..16 : HexLower[j] = v[i]
     THEN HexUpper[CHOOSE j \in 1..16 : HexLower[j] = v[i]]
     ELSE v[i]]

\* Sidebar.tsx normalizeHexColor
uiNormalizeHexColor(value, fallback) ==
  LET v == Trim(value)
  IN IF IsHex(v, 6) THEN ToUpperCase(v)
     ELSE IF IsHex(v, 3) THEN ToUpperCase(<<"#", v[2], v[2], v[3], v[3], v[4], v[4]>>)
     ELSE fallback

\* Sidebar.tsx normalizeFontWeight
normalizeFontWeight(value, fallback) ==
  LET parsed == IF value.k = "undef" THEN Num(fallback) ELSE ParseIntOf(value)
  IN IF parsed.k = "nan" THEN fallback
     ELSE Min(900, Max(100, RoundToHundred(parsed.v)))

\* Number.parseFloat(String(value)): of a string its parse, of NaN NaN, of a
\* finite number the number itself (String writes the shortest decimal that
\* reads back as the number)
ParseFloatOf(value) ==
  IF value.k = "str" THEN ParseFloat(value.s)
  ELSE IF value.k = "num" THEN Num(value.v)
  ELSE NaN

\* Sidebar.tsx normalizeNumber; min, max and fallback in the units of value
normalizeNumber(value, min, max, fallback) ==
  LET parsed == IF value.k = "undef" THEN Num(fallback) ELSE ParseFloatOf(value)
  IN IF parsed.k = "nan" THEN fallback
     ELSE Min(max, Max(min, parsed.v))

\* `value || fallback` of a string
OrString(value, fallback) == IF value = <<>> THEN fallback ELSE value

\* `value || fallback` of a number: 0, NaN and undefined are falsy
OrNumber(value, fallback) ==
  IF IsNumber(value) /\ value.v # 0 THEN value.v ELSE fallback

(***************************************************************************)
(* The host: CanvasRenderingContext2D.  The state a call works on is       *)
(* [data, ctx, clip, saved, calls]: the canvas pixels, the drawing state,  *)
(* the clip region (NoClip or an IntRect), the ctx.save() stack and the    *)
(* calls made so far.                                                      *)
(***************************************************************************)
NoClip == [x |-> 0, y |-> 0, width |-> -1, height |-> -1]

Call(op, x, y, w, h, arg) == [op |-> op, x |-> x, y |-> y, w |-> w, h |-> h, arg |-> arg]

Log(S, c) == [S EXCEPT !.calls = Append(@, c)]

\* a context as document.createElement("canvas").getContext("2d") returns it
DefaultCtx ==
  [font |-> [weight |-> 400, size |-> Px(10), family |-> "sans-serif"],
   fillStyle |-> Black,
   textBaseline |-> "alphabetic",
   textAlign |-> "start"]

\* glyph advance in quarter ems
Advance(ch) == IF ch = "A" THEN 2 ELSE IF ch = "V" THEN 3 ELSE 2

RECURSIVE KernedPairs(_)
KernedPairs(text) ==
  IF Len(text) < 2 THEN 0
  ELSE (IF text[1] = "A" /\ text[2] = "V" THEN 1 ELSE 0) + KernedPairs(Tail(text))

RECURSIVE SumAdvance(_)
SumAdvance(text) ==
  IF text = <<>> THEN 0 ELSE Advance(Head(text)) + SumAdvance(Tail(text))

\* ctx.measureText(text).width under the font `font`: the host shapes the run
\* as a whole, so a kerned pair is narrower than its two glyphs
measureText(font, text) ==
  ((SumAdvance(text) - kern * KernedPairs(text)) * font.size) \div 4

\* ctx.fillStyle = value: the host ignores a value that is no colour
SetFillStyle(S, value) ==
  Log([S EXCEPT !.ctx.fillStyle = IF IsHex(value, 6) \/ IsHex(value, 3) THEN value ELSE @],
      Call("fillStyle", 0, 0, 0, 0, value))

SetFont(S, font) == Log([S EXCEPT !.ctx.font = font], Call("font", 0, 0, 0, 0, font))

\* the mutant leaves the baseline the context has
SetTextBaselineKept(S, value) == Log(S, Call("textBaseline", 0, 0, 0, 0, value))

SetTextBaseline(S, value) ==
  Log([S EXCEPT !.ctx.textBaseline = value], Call("textBaseline", 0, 0, 0, 0, value))

SetTextAlign(S, value) ==
  Log([S EXCEPT !.ctx.textAlign = value], Call("textAlign", 0, 0, 0, 0, value))

\* the RGBA pixel a "#rrggbb" fill style paints
ColorOf(style) ==
  LET c == normalizeHexColor(style, Black)
  IN <<16 * HexValue(c[2]) + HexValue(c[3]),
       16 * HexValue(c[4]) + HexValue(c[5]),
       16 * HexValue(c[6]) + HexValue(c[7]),
       255>>

InRect(x, y, r) ==
  /\ r.x <= x /\ x < r.x + r.width
  /\ r.y <= y /\ y < r.y + r.height

InClip(S, x, y) == S.clip = NoClip \/ InRect(x, y, S.clip)

\* ctx.getImageData(x, y, w, h).data as a row-major sequence of pixels; a
\* pixel outside the canvas reads as transparent black
ImageDataOf(data, x, y, w, h) ==
  [i \in 1..(w * h) |->
     LET p == <<x + ((i - 1) % w), y + ((i - 1) \div w)>>
     IN IF p \in DOMAIN data THEN data[p] ELSE <<0, 0, 0, 0>>]

GetImageData(S, x, y, w, h) == ImageDataOf(S.data, x, y, w, h)

\* ctx.putImageData(new ImageData(out, w, h), x, y): written as is, clip ignored
PutImageData(S, out, x, y, w, h) ==
  Log([S EXCEPT !.data =
         [p \in DOMAIN @ |->
            IF InRect(p[1], p[2], [x |-> x, y |-> y, width |-> w, height |-> h])
            THEN out[(p[2] - y) * w + (p[1] - x) + 1]
            ELSE @[p]]],
      Call("putImageData", x, y, w, h, out))

\* ctx.fillRect(x, y, w, h) with an opaque fill style, in whole pixels
FillRect(S, x, y, w, h) ==
  Log([S EXCEPT !.data =
         [p \in DOMAIN @ |->
            IF /\ InRect(p[1], p[2], [x |-> x, y |-> y, width |-> w, height |-> h])
               /\ InClip(S, p[1], p[2])
            THEN ColorOf(S.ctx.fillStyle)
            ELSE @[p]]],
      Call("fillRect", x, y, w, h, S.ctx.fillStyle))

\* the box of a text run anchored at (x, y), in units: [left, top, right, bottom]
TextBox(c, text, x, y) ==
  LET w == measureText(c.font, text)
      left == IF c.textAlign \in {"center"} THEN x - w \div 2
              ELSE IF c.textAlign \in {"right", "end"} THEN x - w
              ELSE x
      top == IF c.textBaseline = "top" THEN y ELSE y - c.font.size
  IN [left |-> left, top |-> top, right |-> left + w, bottom |-> top + c.font.size]

\* ctx.fillText(text, x, y): every pixel of the clip region the run's box
\* touches takes the fill colour
FillText(S, text, x, y) ==
  LET b == TextBox(S.ctx, text, x, y)
  IN Log([S EXCEPT !.data =
            [p \in DOMAIN @ |->
               IF /\ b.left < Px(p[1] + 1) /\ Px(p[1]) < b.right
                  /\ b.top < Px(p[2] + 1) /\ Px(p[2]) < b.bottom
                  /\ InClip(S, p[1], p[2])
               THEN ColorOf(S.ctx.fillStyle)
               ELSE @[p]]],
         Call("fillText", x, y, 0, 0, text))

\* ctx.save()
Save(S) ==
  Log([S EXCEPT !.saved = Append(@, [ctx |-> S.ctx, clip |-> S.clip])],
      Call("save", 0, 0, 0, 0, <<>>))

\* ctx.restore()
Restore(S) ==
  IF S.saved = <<>> THEN Log(S, Call("restore", 0, 0, 0, 0, <<>>))
  ELSE Log([S EXCEPT !.ctx = S.saved[Len(S.saved)].ctx,
                     !.clip = S.saved[Len(S.saved)].clip,
                     !.saved = SubSeq(@, 1, Len(@) - 1)],
           Call("restore", 0, 0, 0, 0, <<>>))

\* the mutant sets no clip region
ClipNone(S, x, y, w, h) == Log(S, Call("clip", x, y, w, h, <<>>))

\* ctx.beginPath(); ctx.rect(x, y, w, h); ctx.clip(): the clip region becomes
\* its intersection with the rectangle
Clip(S, x, y, w, h) ==
  LET r == IF S.clip = NoClip
           THEN [x |-> x, y |-> y, width |-> w, height |-> h]
           ELSE LET l == Max(x, S.clip.x)
                    t == Max(y, S.clip.y)
                    rr == Min(x + w, S.clip.x + S.clip.width)
                    bb == Min(y + h, S.clip.y + S.clip.height)
                IN [x |-> l, y |-> t, width |-> Max(0, rr - l), height |-> Max(0, bb - t)]
  IN Log([S EXCEPT !.clip = r], Call("clip", x, y, w, h, <<>>))

(***************************************************************************)
(* Text measurement and line breaking                                      *)
(***************************************************************************)
RECURSIVE SumOfGlyphs(_, _)
SumOfGlyphs(font, text) ==
  IF text = <<>> THEN 0
  ELSE measureText(font, <<Head(text)>>) + SumOfGlyphs(font, Tail(text))

\* the mutant adds the spacing after every character, the last included
measureLineWidthSpacingAfterLast(font, text, letterSpacing) ==
  IF text = <<>> THEN 0
  ELSE IF letterSpacing = 0 THEN measureText(font, text)
  ELSE SumOfGlyphs(font, text) + letterSpacing * Len(text)

measureLineWidth(font, text, letterSpacing) ==
  IF text = <<>> THEN 0
  ELSE IF letterSpacing = 0 THEN measureText(font, text)
  ELSE SumOfGlyphs(font, text) + letterSpacing * (Len(text) - 1)

\* the for...of loop of wrapLineByChars from character i on, with the lines
\* flushed so far and the line being packed
RECURSIVE WrapFrom(_, _, _, _, _, _, _)
WrapFrom(font, line, maxWidth, letterSpacing, i, wrapped, current) ==
  IF i > Len(line) THEN [wrapped |-> wrapped, current |-> current]
  ELSE LET ch == line[i]
           candidate == Append(current, ch)
           candidateWidth == measureLineWidth(font, candidate, letterSpacing)
       IN IF current # <<>> /\ candidateWidth > maxWidth
          THEN WrapFrom(font, line, maxWidth, letterSpacing, i + 1,
                        Append(wrapped, current), <<ch>>)
          ELSE WrapFrom(font, line, maxWidth, letterSpacing, i + 1, wrapped, candidate)

\* maxWidth in units
wrapLineByChars(font, line, maxWidth, letterSpacing) ==
  IF line = <<>> THEN << <<>> >>
  ELSE IF maxWidth <= Px(1) THEN <<line>>
  ELSE LET w == WrapFrom(font, line, maxWidth, letterSpacing, 1, <<>>, <<>>)
           flushed == IF w.current # <<>> THEN Append(w.wrapped, w.current) ELSE w.wrapped
       IN IF Len(flushed) = 0 THEN <<line>> ELSE flushed

\* text.split("\n")
RECURSIVE Split(_, _, _)
Split(text, i, current) ==
  IF i > Len(text) THEN <<current>>
  ELSE IF text[i] = "\n" THEN <<current>> \o Split(text, i + 1, <<>>)
  ELSE Split(text, i + 1, Append(current, text[i]))

RECURSIVE WrapParagraphs(_, _, _, _, _)
WrapParagraphs(font, paragraphLines, maxWidth, letterSpacing, index) ==
  IF index > Len(paragraphLines) THEN <<>>
  ELSE LET line == paragraphLines[index]
       IN wrapLineByChars(font, line, maxWidth, letterSpacing)
          \o (IF index < Len(paragraphLines) /\ line = <<>> THEN << <<>> >> ELSE <<>>)
          \o WrapParagraphs(font, paragraphLines, maxWidth, letterSpacing, index + 1)

wrapText(font, text, maxWidth, letterSpacing) ==
  LET paragraphLines == Split(text, 1, <<>>)
      lines == WrapParagraphs(font, paragraphLines, maxWidth, letterSpacing, 1)
  IN IF Len(lines) > 0 THEN lines ELSE << <<>> >>

\* the fillText calls of one line, character i on, with the cursor at cursorX
RECURSIVE DrawGlyphsFrom(_, _, _, _, _, _)
DrawGlyphsFrom(S, line, i, cursorX, y, letterSpacing) ==
  IF i > Len(line) THEN S
  ELSE Only({ DrawGlyphsFrom(T, line, i + 1, next, y, letterSpacing) :
                T \in {FillText(S, <<line[i]>>, cursorX, y)},
                next \in {cursorX + measureText(S.ctx.font, <<line[i]>>)
                            + (IF i < Len(line) THEN letterSpacing ELSE 0)} })

drawLineWithSpacing(S, line, x, y, letterSpacing) ==
  IF line = <<>> THEN S
  ELSE IF letterSpacing = 0 THEN FillText(S, line, x, y)
  ELSE DrawGlyphsFrom(S, line, 1, x, y, letterSpacing)

(***************************************************************************)
(* Background reconstructor                                                *)
(***************************************************************************)
\* cloneDirection "" is an unset direction
getCloneOrder(direction) ==
  IF direction = "" THEN <<"up", "down", "left", "right">> ELSE <<direction>>

\* the null getSourceRect returns
NoSource == [x |-> 0, y |-> 0, width |-> -1, height |-> -1]

\* the mutant leaves no gap between the rect and its source
getSourceRectNoGap(r, canvasWidth, canvasHeight, direction) ==
  LET gap == 0
      up == r.y - r.height - gap
      down == r.y + r.height + gap
      left == r.x - r.width - gap
      right == r.x + r.width + gap
  IN IF direction = "up" /\ up >= 0
     THEN [x |-> r.x, y |-> up, width |-> r.width, height |-> r.height]
     ELSE IF direction = "down" /\ down + r.height <= canvasHeight
     THEN [x |-> r.x, y |-> down, width |-> r.width, height |-> r.height]
     ELSE IF direction = "left" /\ left >= 0
     THEN [x |-> left, y |-> r.y, width |-> r.width, height |-> r.height]
     ELSE IF direction = "right" /\ right + r.width <= canvasWidth
     THEN [x |-> right, y |-> r.y, width |-> r.width, height |-> r.height]
     ELSE NoSource

getSourceRect(r, canvasWidth, canvasHeight, direction) ==
  LET gap == 2
      up == r.y - r.height - gap
      down == r.y + r.height + gap
      left == r.x - r.width - gap
      right == r.x + r.width + gap
  IN IF direction = "up" /\ up >= 0
     THEN [x |-> r.x, y |-> up, width |-> r.width, height |-> r.height]
     ELSE IF direction = "down" /\ down + r.height <= canvasHeight
     THEN [x |-> r.x, y |-> down, width |-> r.width, height |-> r.height]
     ELSE IF direction = "left" /\ left >= 0
     THEN [x |-> left, y |-> r.y, width |-> r.width, height |-> r.height]
     ELSE IF direction = "right" /\ right + r.width <= canvasWidth
     THEN [x |-> right, y |-> r.y, width |-> r.width, height |-> r.height]
     ELSE NoSource

RECURSIVE SumChannel(_, _)
SumChannel(pixels, channel) ==
  IF pixels = <<>> THEN 0 ELSE Head(pixels)[channel] + SumChannel(Tail(pixels), channel)

\* Math.round(sum / count) for sum >= 0: a half rounds up
RoundDiv(sum, count) == (2 * sum + count) \div (2 * count)

\* Math.round(v).toString(16).padStart(2, "0") for 0 <= v <= 255
toHex(v) == <<HexLower[(v \div 16) + 1], HexLower[(v % 16) + 1]>>

\* the strips getAverageNeighborColor collects, in its order: left, right,
\* top, bottom; collect() returns early on an empty strip
NeighborStrips(r, cW, cH) ==
  SelectSeq(
    <<[on |-> r.x > 0, x |-> r.x - 1, y |-> r.y, w |-> 1, h |-> r.height],
      [on |-> r.x + r.width < cW, x |-> r.x + r.width, y |-> r.y, w |-> 1, h |-> r.height],
      [on |-> r.y > 0, x |-> r.x, y |-> r.y - 1, w |-> r.width, h |-> 1],
      [on |-> r.y + r.height < cH, x |-> r.x, y |-> r.y + r.height, w |-> r.width, h |-> 1]>>,
    LAMBDA s : s.on /\ s.w > 0 /\ s.h > 0)

RECURSIVE CollectStrips(_, _, _)
CollectStrips(S, strips, i) ==
  IF i > Len(strips) THEN <<>>
  ELSE GetImageData(S, strips[i].x, strips[i].y, strips[i].w, strips[i].h)
       \o CollectStrips(S, strips, i + 1)

RECURSIVE LogReads(_, _, _)
LogReads(S, strips, i) ==
  IF i > Len(strips) THEN S
  ELSE LogReads(Log(S, Call("getImageData", strips[i].x, strips[i].y,
                            strips[i].w, strips[i].h, <<>>)),
                strips, i + 1)

\* the mutant averages the four strip means, whatever the strips' lengths
AverageOfStripMeans(S, r, fallback) ==
  LET strips == NeighborStrips(r, S.width, S.height)
      n == Len(strips)
      Mean(i, ch) ==
        SumChannel(GetImageData(S, strips[i].x, strips[i].y, strips[i].w, strips[i].h), ch)
          \div (strips[i].w * strips[i].h)
      RECURSIVE Total(_, _)
      Total(i, ch) == IF i > n THEN 0 ELSE Mean(i, ch) + Total(i + 1, ch)
  IN IF n = 0 THEN fallback
     ELSE <<"#">> \o toHex(RoundDiv(Total(1, 1), n)) \o toHex(RoundDiv(Total(1, 2), n))
                  \o toHex(RoundDiv(Total(1, 3), n))

\* the colour getAverageNeighborColor returns
\* the mutant fills with black where no neighbouring pixel exists
AverageNeighborColorNoFallback(S, r, fallback) ==
  LET sampled == CollectStrips(S, NeighborStrips(r, S.width, S.height), 1)
      count == Len(sampled)
  IN IF count = 0 THEN Black
     ELSE <<"#">> \o toHex(RoundDiv(SumChannel(sampled, 1), count))
                  \o toHex(RoundDiv(SumChannel(sampled, 2), count))
                  \o toHex(RoundDiv(SumChannel(sampled, 3), count))

AverageNeighborColor(S, r, fallback) ==
  LET sampled == CollectStrips(S, NeighborStrips(r, S.width, S.height), 1)
      count == Len(sampled)
  IN IF count = 0 THEN fallback
     ELSE <<"#">> \o toHex(RoundDiv(SumChannel(sampled, 1), count))
                  \o toHex(RoundDiv(SumChannel(sampled, 2), count))
                  \o toHex(RoundDiv(SumChannel(sampled, 3), count))

\* getAverageNeighborColor: [S, color], S with the reads logged
getAverageNeighborColor(S, r, fallback) ==
  [S |-> LogReads(S, NeighborStrips(r, S.width, S.height), 1),
   color |-> AverageNeighborColor(S, r, fallback)]

\* the mutant copies the source without feathering
BlendSourceOnly(source, target, distEdge) == source

\* Math.round(source * alpha + target * (1 - alpha)) with
\* alpha = 0.96 + 0.04 * clamp(distEdge / 3, 0, 1) = (72 + min(distEdge, 3)) / 75
Blend(source, target, distEdge) ==
  LET t == clamp(distEdge, 0, 3)
  IN (2 * (source * (72 + t) + target * (3 - t)) + 75) \div 150

\* the buffer the feathered clone writes
FeatherOut(sourceData, targetData, r) ==
  [idx \in 1..(r.width * r.height) |->
     LET x == (idx - 1) % r.width
         y == (idx - 1) \div r.width
         distEdge == Min(Min(x, y), Min(r.width - 1 - x, r.height - 1 - y))
     IN <<Blend(sourceData[idx][1], targetData[idx][1], distEdge),
          Blend(sourceData[idx][2], targetData[idx][2], distEdge),
          Blend(sourceData[idx][3], targetData[idx][3], distEdge),
          255>>]

\* one pass of the body of `for (const direction of directions)`
CloneFrom(S, r, source) ==
  LET sourceData == GetImageData(S, source.x, source.y, r.width, r.height)
      targetData == GetImageData(S, r.x, r.y, r.width, r.height)
      S1 == Log(S, Call("getImageData", source.x, source.y, r.width, r.height, <<>>))
      S2 == Log(S1, Call("getImageData", r.x, r.y, r.width, r.height, <<>>))
  IN PutImageData(S2, FeatherOut(sourceData, targetData, r), r.x, r.y, r.width, r.height)

\* the mutant tries the candidate directions last to first
FirstSourceReversed(r, canvasWidth, canvasHeight, directions) ==
  LET valid == SelectSeq(directions,
                 LAMBDA d : getSourceRect(r, canvasWidth, canvasHeight, d) # NoSource)
  IN IF valid = <<>> THEN NoSource
     ELSE getSourceRect(r, canvasWidth, canvasHeight, valid[Len(valid)])

\* the source of the first direction the loop does not `continue` past
FirstSource(r, canvasWidth, canvasHeight, directions) ==
  LET valid == SelectSeq(directions,
                 LAMBDA d : getSourceRect(r, canvasWidth, canvasHeight, d) # NoSource)
  IN IF valid = <<>> THEN NoSource
     ELSE getSourceRect(r, canvasWidth, canvasHeight, valid[1])

applyBackground(S, o, r) ==
  LET mode == IF o.backgroundMode = "" THEN "solid" ELSE o.backgroundMode
      fallbackColor == normalizeHexColor(OrString(o.backgroundColor, White), White)
      source == FirstSource(r, S.width, S.height, getCloneOrder(o.cloneDirection))
      avg == getAverageNeighborColor(S, r, fallbackColor)
  IN IF mode = "solid"
     THEN FillRect(SetFillStyle(S, fallbackColor), r.x, r.y, r.width, r.height)
     ELSE IF source # NoSource
     THEN CloneFrom(S, r, source)
     ELSE FillRect(SetFillStyle(avg.S, avg.color), r.x, r.y, r.width, r.height)

(***************************************************************************)
(* Text fitter and renderer                                                *)
(***************************************************************************)
minFontSize == Px(6)

\* the mutant takes nothing off the font size
FontStepNone == Px(0)

\* the mutant takes a quarter pixel off the font size
FontStepQuarter == Px(1) \div 4

\* the 0.5 px the autofit loop takes off the font size
FontStep == Px(1) \div 2

\* `${fontWeight} ${fontSize}px ${fontFamily}, sans-serif`
FontOf(o, fontSize) ==
  [weight |-> normalizeWeight(o.fontWeight),
   size |-> fontSize,
   family |-> IF o.fontFamily = "" THEN "sans-serif" ELSE o.fontFamily]

baseFontSize(o) == clamp(OrNumber(o.fontSize, Px(16)), Px(6), Px(400))

RECURSIVE MaxLineWidth(_, _, _)
MaxLineWidth(font, lines, letterSpacing) ==
  IF lines = <<>> THEN 0
  ELSE Max(measureLineWidth(font, Head(lines), letterSpacing),
           MaxLineWidth(font, Tail(lines), letterSpacing))

\* the body of `while (fontSize >= minFontSize)` down to its break test, on
\* the locals L = [S, fontSize, lines, lineHeightPx]
LoopBody(o, r, L) ==
  LET letterSpacing == normalizeLetterSpacing(o.letterSpacing)
      lineHeight == normalizeLineHeight(o.lineHeight)
      S1 == SetFont(L.S, FontOf(o, L.fontSize))
      lines == wrapText(S1.ctx.font, o.newText, Px(r.width), letterSpacing)
      lineHeightPx == (L.fontSize * lineHeight) \div 10
      totalHeight == Len(lines) * lineHeightPx
      maxWidth == MaxLineWidth(S1.ctx.font, lines, letterSpacing)
  IN [S |-> S1, fontSize |-> L.fontSize, lines |-> lines, lineHeightPx |-> lineHeightPx,
      fits |-> totalHeight <= Px(r.height) /\ maxWidth <= Px(r.width)]

\* the autofit loop, run to its exit
RECURSIVE AutofitLoop(_, _, _)
AutofitLoop(o, r, L) ==
  IF L.fontSize >= minFontSize
  THEN Only({ LET next == [S |-> B.S, fontSize |-> B.fontSize, lines |-> B.lines,
                           lineHeightPx |-> B.lineHeightPx]
              IN IF B.fits THEN next
                 ELSE AutofitLoop(o, r, [next EXCEPT !.fontSize = @ - FontStep]) :
                B \in {LoopBody(o, r, L)} })
  ELSE L

\* lines.forEach of drawText from line `index` (0-based) on
RECURSIVE DrawLines(_, _, _, _, _, _, _, _)
DrawLines(S, r, lines, index, hAlign, startY, lineHeightPx, letterSpacing) ==
  IF index >= Len(lines) THEN S
  ELSE LET line == lines[index + 1]
           lineWidth == measureLineWidth(S.ctx.font, line, letterSpacing)
           startX == IF hAlign = "center" THEN Px(r.x) + (Px(r.width) - lineWidth) \div 2
                     ELSE IF hAlign = "right" THEN Px(r.x) + Px(r.width) - lineWidth
                     ELSE Px(r.x)
       IN Only({ DrawLines(T, r, lines, index + 1, hAlign, startY, lineHeightPx,
                           letterSpacing) :
                   T \in {drawLineWithSpacing(S, line, startX,
                                               startY + index * lineHeightPx,
                                               letterSpacing)} })

\* the mutant does not keep the block's top at or below the rect's
PaintTextUnclamped(o, r, F) ==
  LET letterSpacing == normalizeLetterSpacing(o.letterSpacing)
      lineHeight == normalizeLineHeight(o.lineHeight)
      hAlign == IF o.hAlign = "" THEN "left" ELSE o.hAlign
      vAlign == IF o.vAlign = "" THEN "top" ELSE o.vAlign
      S1 == SetFont(F.S, FontOf(o, F.fontSize))
      S2 == SetFillStyle(S1, normalizeHexColor(OrString(o.fontColor, Black), Black))
      S3 == SetTextAlign(SetTextBaseline(S2, "top"), "left")
      lineHeightPx == (F.fontSize * lineHeight) \div 10
      totalTextHeight == Len(F.lines) * lineHeightPx
      startY == IF vAlign = "middle" THEN Px(r.y) + (Px(r.height) - totalTextHeight) \div 2
                ELSE IF vAlign = "bottom" THEN Px(r.y) + Px(r.height) - totalTextHeight
                ELSE Px(r.y)
  IN Only({ Restore(S5) :
              S5 \in { DrawLines(S4, r, F.lines, 0, hAlign, startY, lineHeightPx,
                                  letterSpacing) :
                         S4 \in {Clip(Save(S3), r.x, r.y, r.width, r.height)} } })

\* drawText from the exit of the autofit loop on, F the locals at the exit
PaintText(o, r, F) ==
  LET letterSpacing == normalizeLetterSpacing(o.letterSpacing)
      lineHeight == normalizeLineHeight(o.lineHeight)
      hAlign == IF o.hAlign = "" THEN "left" ELSE o.hAlign
      vAlign == IF o.vAlign = "" THEN "top" ELSE o.vAlign
      S1 == SetFont(F.S, FontOf(o, F.fontSize))
      S2 == SetFillStyle(S1, normalizeHexColor(OrString(o.fontColor, Black), Black))
      S3 == SetTextAlign(SetTextBaseline(S2, "top"), "left")
      lineHeightPx == (F.fontSize * lineHeight) \div 10
      totalTextHeight == Len(F.lines) * lineHeightPx
      y0 == IF vAlign = "middle" THEN Px(r.y) + (Px(r.height) - totalTextHeight) \div 2
            ELSE IF vAlign = "bottom" THEN Px(r.y) + Px(r.height) - totalTextHeight
            ELSE Px(r.y)
      startY == Max(Px(r.y), y0)
  IN Only({ Restore(S5) :
              S5 \in { DrawLines(S4, r, F.lines, 0, hAlign, startY, lineHeightPx,
                                  letterSpacing) :
                         S4 \in {Clip(Save(S3), r.x, r.y, r.width, r.height)} } })

drawText(S, o, r) ==
  Only({ PaintText(o, r, F) :
           F \in {AutofitLoop(o, r, [S |-> S, fontSize |-> baseFontSize(o),
                                     lines |-> <<>>, lineHeightPx |-> 0])} })

\* the mutant has no early exit on an empty rect
renderTextOverlayNoEarlyExit(S, o) ==
  LET r == toIntRect(o.rect, S.width, S.height)
  IN Only({ drawText(B, o, r) : B \in {applyBackground(S, o, r)} })

renderTextOverlay(S, o) ==
  LET r == toIntRect(o.rect, S.width, S.height)
  IN IF r.width <= 0 \/ r.height <= 0 THEN S
     ELSE Only({ drawText(B, o, r) : B \in {applyBackground(S, o, r)} })

(***************************************************************************)
(* Bounds and inputs                                                       *)
(***************************************************************************)
\* side of the square slide canvas of Spec, in pixels
CanvasSide == 5

\* canvas widths and heights of SpecResolve range over 1..MaxCanvas
MaxCanvas == 3

\* longest line measured in SpecMeasure, in characters
MaxChars == 3

\* a slide image with a one-pixel frame of four colours around a flat interior
Frame(w, h) ==
  [p \in (0..(w - 1)) \X (0..(h - 1)) |->
     IF p[1] = 0 THEN <<255, 0, 0, 255>>
     ELSE IF p[1] = w - 1 THEN <<0, 255, 0, 255>>
     ELSE IF p[2] = 0 THEN <<0, 0, 255, 255>>
     ELSE IF p[2] = h - 1 THEN <<255, 255, 0, 255>>
     ELSE <<10, 20, 30, 255>>]

\* a slide image no two pixels of which agree, partly transparent
Gradient(w, h) ==
  [p \in (0..(w - 1)) \X (0..(h - 1)) |->
     <<(37 * p[1] + 11 * p[2]) % 256, (59 * p[2] + 5 * p[1]) % 256,
       (20 * (p[1] + p[2]) + 7) % 256, IF p[1] = p[2] THEN 128 ELSE 255>>]

\* a blank (transparent black) canvas, as created
Blank(w, h) == [p \in (0..(w - 1)) \X (0..(h - 1)) |-> <<0, 0, 0, 0>>]

\* the drawing state an earlier renderTextOverlay call leaves on a context
\* that is used again (the editor's compose canvas)
UsedCtx ==
  [font |-> [weight |-> 700, size |-> Px(12), family |-> "serif"],
   fillStyle |-> <<"#", "1", "2", "3", "4", "5", "6">>,
   textBaseline |-> "top",
   textAlign |-> "left"]

\* the typography of an overlay: every field of a TextOverlay but its rect,
\* backgroundMode and cloneDirection.  PlainStyle paints no glyph.
PlainStyle ==
  [newText |-> <<>>, fontSize |-> Num(Px(6)), fontWeight |-> Num(400),
   fontColor |-> <<>>, fontFamily |-> "", letterSpacing |-> Num(0),
   lineHeight |-> Num(8), backgroundColor |-> <<"#", "f", "0", "0">>,
   vAlign |-> "top", hAlign |-> "left"]

TextStyles ==
  { [newText |-> <<"A">>, fontSize |-> Num(Px(6)), fontWeight |-> Num(733),
     fontColor |-> <<"#", "0", "0", "8", "0", "0", "0">>, fontFamily |-> "Arial",
     letterSpacing |-> Num(0), lineHeight |-> Num(5),
     backgroundColor |-> <<"r", "e", "d">>,
     vAlign |-> "bottom", hAlign |-> "right"],
    [newText |-> <<"A", "V", "\n", "A">>, fontSize |-> Num(Px(7)), fontWeight |-> Undefined,
     fontColor |-> <<"#", "0", "0", "f">>, fontFamily |-> "Arial",
     letterSpacing |-> Num(Px(1)), lineHeight |-> NaN,
     backgroundColor |-> <<>>,
     vAlign |-> "middle", hAlign |-> "center"] }

Backgrounds ==
  { [backgroundMode |-> "solid", cloneDirection |-> "up"],
    [backgroundMode |-> "clone", cloneDirection |-> ""],
    [backgroundMode |-> "clone", cloneDirection |-> "up"],
    [backgroundMode |-> "clone", cloneDirection |-> "down"],
    [backgroundMode |-> "clone", cloneDirection |-> "left"],
    [backgroundMode |-> "clone", cloneDirection |-> "right"] }

MakeOverlay(r, bg, style) ==
  [rect |-> r,
   newText |-> style.newText,
   fontSize |-> style.fontSize,
   fontWeight |-> style.fontWeight,
   fontColor |-> style.fontColor,
   fontFamily |-> style.fontFamily,
   letterSpacing |-> style.letterSpacing,
   lineHeight |-> style.lineHeight,
   backgroundColor |-> style.backgroundColor,
   backgroundMode |-> bg.backgroundMode,
   cloneDirection |-> bg.cloneDirection,
   vAlign |-> style.vAlign,
   hAlign |-> style.hAlign]

\* the rects of whole pixels inside a canvas of side n, in units
InnerRects(n) ==
  { [x |-> Px(x), y |-> Px(y), width |-> Px(w), height |-> Px(h)] :
      <<x, y, w, h>> \in
        { q \in (0..(n - 1)) \X (0..(n - 1)) \X (1..n) \X (1..n) :
            q[1] + q[3] <= n /\ q[2] + q[4] <= n } }

\* every background on every rect without text, and every text style on a
\* flat fill and on an undirected clone
Overlays ==
  { MakeOverlay(r, bg, PlainStyle) : <<r, bg>> \in InnerRects(CanvasSide) \X Backgrounds }
  \cup
  { MakeOverlay(r, bg, style) :
      <<r, bg, style>> \in
        InnerRects(CanvasSide)
          \X { b \in Backgrounds : b.backgroundMode = "solid" \/ b.cloneDirection = "" }
          \X TextStyles }

\* no overlay rendered yet
NoOverlay ==
  MakeOverlay([x |-> 0, y |-> 0, width |-> 0, height |-> 0],
              [backgroundMode |-> "", cloneDirection |-> ""],
              [newText |-> <<>>, fontSize |-> Undefined, fontWeight |-> Undefined,
               fontColor |-> <<>>, fontFamily |-> "", letterSpacing |-> Undefined,
               lineHeight |-> Undefined, backgroundColor |-> <<>>,
               vAlign |-> "", hAlign |-> ""])

NoRect == [x |-> 0, y |-> 0, width |-> 0, height |-> 0]

NoFit == [pc |-> "idle", fontSize |-> 0, lines |-> <<>>, lineHeightPx |-> 0]

NoMeasure == [text |-> <<>>, letterSpacing |-> 0, width |-> 0]

NoNorm == [kind |-> "none"]

NoSlide == [overlays |-> <<>>]

NoSites == <<>>

NoForm == <<>>

NoApp == <<>>

NoEditor == <<>>

NoSettings == <<>>

(***************************************************************************)
(* Spec: one overlay rendered on a slide image                             *)
(***************************************************************************)
\* the state a host call works on, for the canvas and a drawing state c
HostState(c) ==
  [data |-> canvas.data, width |-> canvas.width, height |-> canvas.height,
   ctx |-> c, clip |-> NoClip, saved |-> <<>>, calls |-> <<>>]

\* ctx.drawImage(img, 0, 0) has put the slide image on a canvas of its size
Loaded(img, w, h, c) ==
  /\ image = img
  /\ canvas = [width |-> w, height |-> h, data |-> img]
  /\ ctx = c
  /\ entry = c
  /\ overlay = NoOverlay
  /\ rect = NoRect
  /\ calls = <<>>
  /\ fresh = img
  /\ phase = "image"
  /\ fit = NoFit
  /\ measure = NoMeasure
  /\ norm = NoNorm
  /\ slide = NoSlide
  /\ sites = NoSites
  /\ form = NoForm
  /\ app = NoApp
  /\ editor = NoEditor
  /\ settings = NoSettings

Init ==
  /\ kern = 1
  /\ \E img \in {Frame(CanvasSide, CanvasSide), Gradient(CanvasSide, CanvasSide)},
        c \in {DefaultCtx, UsedCtx} :
       Loaded(img, CanvasSide, CanvasSide, c)

\* renderTextOverlay(ctx, o) on the canvas, and on a context just created
\* that holds the same pixels
Render(o) ==
  /\ phase = "image"
  /\ \E S \in {renderTextOverlay(HostState(ctx), o)} :
     \E F \in {IF ctx = DefaultCtx THEN S ELSE renderTextOverlay(HostState(DefaultCtx), o)} :
        /\ canvas' = [canvas EXCEPT !.data = S.data]
        /\ ctx' = S.ctx
        /\ calls' = S.calls
        /\ fresh' = F.data
  /\ entry' = ctx
  /\ overlay' = o
  /\ rect' = toIntRect(o.rect, canvas.width, canvas.height)
  /\ phase' = "rendered"
  /\ UNCHANGED <<image, kern, fit, measure>>
  /\ UNCHANGED uiVars

\* a caller's `slide.overlays.forEach((overlay) => renderTextOverlay(ctx, overlay))`
\* for a slide of one overlay
RenderSlide == phase = "image" /\ \E o \in Overlays : Render(o)

Next == RenderSlide

Spec == Init /\ [][Next]_vars

(***************************************************************************)
(* SpecResolve: rects of any shape and place rendered on canvases of any   *)
(* size from 1 x 1 to MaxCanvas x MaxCanvas                                *)
(***************************************************************************)
Half == Unit \div 2

\* origins left of, on and right of a side of n pixels, whole and fractional
Origins(n) == { k * Half : k \in -3..1 } \cup { Px(n) + k * Half : k \in -1..1 }

\* sizes: negative, zero, fractional, the side and more than the side
Sizes(n) == { k * Half : k \in -2..2 } \cup { Px(n), Px(n) + 3 * Half }

AnyRects(w, h) ==
  { [x |-> q[1], y |-> q[2], width |-> q[3], height |-> q[4]] :
      q \in Origins(w) \X Origins(h) \X Sizes(w) \X Sizes(h) }

InitResolve ==
  /\ kern = 1
  /\ \E w \in 1..MaxCanvas, h \in 1..MaxCanvas : Loaded(Blank(w, h), w, h, DefaultCtx)

RenderAnyRect ==
  /\ phase = "image"
  /\ \E r \in AnyRects(canvas.width, canvas.height) :
       Render(MakeOverlay(r, [backgroundMode |-> "solid", cloneDirection |-> ""], PlainStyle))

NextResolve == RenderAnyRect

SpecResolve == InitResolve /\ [][NextResolve]_vars

\* Claim C1: for every canvas size W, H >= 1 and every rect, the rect
\* toIntRect resolves has 0 <= x, 0 <= y, width >= 0, height >= 0,
\* x + width <= W and y + height <= H.
C1_ResolvedInBounds ==
  phase = "rendered" =>
    /\ 0 <= rect.x /\ 0 <= rect.y
    /\ rect.width >= 0 /\ rect.height >= 0
    /\ rect.x + rect.width <= canvas.width
    /\ rect.y + rect.height <= canvas.height

\* a fractional rect that starts left of and above the canvas and ends right
\* of and below it has been resolved to a rect of positive area
C1_Witness ==
  /\ phase = "rendered"
  /\ overlay.rect.x < 0 /\ overlay.rect.x % Unit # 0
  /\ overlay.rect.y < 0
  /\ overlay.rect.x + overlay.rect.width > Px(canvas.width)
  /\ overlay.rect.y + overlay.rect.height > Px(canvas.height)
  /\ rect.width > 0 /\ rect.height > 0

\* a rect of zero or negative size, or one that lies outside [0,W) x [0,H)
C2_Degenerate(r, w, h) ==
  \/ r.width <= 0 \/ r.height <= 0
  \/ r.x + r.width <= 0 \/ r.x >= Px(w)
  \/ r.y + r.height <= 0 \/ r.y >= Px(h)

\* Claim C2: a degenerate rect (zero or negative width or height, or entirely
\* outside the canvas on any side) resolves to width 0 or height 0, and
\* renderTextOverlay leaves the surface pixel-identical.
C2_DegenerateIsNoOp ==
  (phase = "rendered" /\ C2_Degenerate(overlay.rect, canvas.width, canvas.height)) =>
    /\ rect.width = 0 \/ rect.height = 0
    /\ canvas.data = image

\* Claim C3: when the resolved rect has width 0 or height 0, renderTextOverlay
\* returns before applyBackground and drawText: no host call is made, no
\* pixel is written and the drawing state is the one on entry.
C3_ZeroAreaReturnsEarly ==
  (phase = "rendered" /\ (rect.width = 0 \/ rect.height = 0)) =>
    /\ calls = <<>>
    /\ canvas.data = image
    /\ ctx = entry

\* a rect of positive size, left of the canvas, has resolved to zero width
C3_Witness ==
  /\ phase = "rendered"
  /\ overlay.rect.width > 0 /\ overlay.rect.height > 0
  /\ rect.width = 0
  /\ rect.height > 0

(***************************************************************************)
(* SpecFit: drawText with its autofit loop run one iteration per step      *)
(***************************************************************************)
\* side of the canvas and height of the rect the text is fitted into, in
\* pixels: a line of 6 px at line height 0.8 fits it
FitSide == 5

FitTexts == { <<"A">>, <<"A", "V">>, <<"V", "\n", "\n", "A">> }

FitFontSizes ==
  { Num(Px(6)), Num(Px(6) + Half \div 2), Num(Px(3)), Num(Px(7)), Num(Px(1000)),
    Num(0), NaN, Undefined }

\* the rects of the aligned overlays: the canvas, where a line fits, and an
\* inner rect too low for any line
FitRects ==
  { [x |-> 0, y |-> 0, width |-> Px(FitSide), height |-> Px(FitSide)],
    [x |-> Px(1), y |-> Px(1), width |-> Px(3), height |-> Px(3)] }

\* overlays of every start size, and overlays of every alignment and of both
\* kinds of letter spacing at the two smallest start sizes
FitOverlays ==
  { [MakeOverlay([x |-> 0, y |-> 0, width |-> Px(w), height |-> Px(FitSide)],
                 [backgroundMode |-> "solid", cloneDirection |-> ""], PlainStyle)
       EXCEPT !.newText = t, !.fontSize = s] :
      <<w, t, s>> \in {2, FitSide} \X FitTexts \X FitFontSizes }
  \cup
  { [MakeOverlay(q[1], [backgroundMode |-> "solid", cloneDirection |-> ""], PlainStyle)
       EXCEPT !.newText = q[2], !.fontSize = q[3], !.hAlign = q[4], !.vAlign = q[5],
              !.letterSpacing = q[6]] :
      q \in FitRects \X FitTexts \X {Num(Px(6)), Num(Px(7))}
              \X {"left", "center", "right"} \X {"top", "middle", "bottom"}
              \X {Num(0), Num(Px(1))} }

InitFit ==
  /\ kern \in {0, 1}
  /\ Loaded(Blank(FitSide, FitSide), FitSide, FitSide, DefaultCtx)

\* renderTextOverlay up to the first test of the loop of drawText
FitStart ==
  /\ phase = "image"
  /\ fit.pc = "idle"
  /\ \E o \in FitOverlays :
       \E r \in {toIntRect(o.rect, canvas.width, canvas.height)} :
       \E S \in {applyBackground(HostState(ctx), o, r)} :
          /\ r.width > 0 /\ r.height > 0
          /\ overlay' = o
          /\ rect' = r
          /\ canvas' = [canvas EXCEPT !.data = S.data]
          /\ ctx' = S.ctx
          /\ calls' = S.calls
          /\ fit' = [pc |-> "loop", fontSize |-> baseFontSize(o), lines |-> <<>>,
                     lineHeightPx |-> 0]
  /\ entry' = ctx
  /\ UNCHANGED <<image, kern, fresh, phase, measure>>
  /\ UNCHANGED uiVars

\* one test of `fontSize >= minFontSize` and, when it holds, one pass of the body
FitIterate ==
  /\ fit.pc = "loop"
  /\ IF fit.fontSize >= minFontSize
     THEN \E B \in {LoopBody(overlay, rect,
                            [S |-> HostState(ctx), fontSize |-> fit.fontSize,
                             lines |-> fit.lines, lineHeightPx |-> fit.lineHeightPx])} :
             /\ ctx' = B.S.ctx
             /\ calls' = B.S.calls
             /\ fit' = [pc |-> IF B.fits THEN "paint" ELSE "loop",
                        fontSize |-> IF B.fits THEN B.fontSize ELSE B.fontSize - FontStep,
                        lines |-> B.lines,
                        lineHeightPx |-> B.lineHeightPx]
     ELSE /\ fit' = [fit EXCEPT !.pc = "paint"]
          /\ UNCHANGED <<ctx, calls>>
  /\ UNCHANGED <<image, canvas, kern, overlay, rect, entry, fresh, phase, measure>>
  /\ UNCHANGED uiVars

\* drawText from the exit of the loop to its return
FitPaint ==
  /\ fit.pc = "paint"
  /\ \E S \in {PaintText(overlay, rect,
                        [S |-> HostState(ctx), fontSize |-> fit.fontSize,
                         lines |-> fit.lines, lineHeightPx |-> fit.lineHeightPx])} :
        /\ canvas' = [canvas EXCEPT !.data = S.data]
        /\ ctx' = S.ctx
        /\ calls' = S.calls
        /\ fresh' = S.data
  /\ fit' = [fit EXCEPT !.pc = "done"]
  /\ phase' = "rendered"
  /\ UNCHANGED <<image, kern, overlay, rect, entry, measure>>
  /\ UNCHANGED uiVars

NextFit == FitStart \/ FitIterate \/ FitPaint

\* drawText is synchronous: a pass of its loop that can run does run
SpecFit == InitFit /\ [][NextFit]_vars /\ WF_vars(FitIterate)

\* the step-wise run of drawText leaves what renderTextOverlay leaves
FitAgreesWithRender ==
  (fit.pc = "done" /\ baseFontSize(overlay) <= Px(16)) =>
    LET S == renderTextOverlay([HostState(DefaultCtx) EXCEPT !.data = image], overlay)
    IN canvas.data = S.data /\ ctx = S.ctx

\* Claim C4: the autofit loop of drawText terminates for every overlay and
\* rect: from any starting font size in [6, 400], whatever the text and the
\* rect, the loop is left after finitely many 0.5 px decrements.
C4_AutofitTerminates == (fit.pc = "loop") ~> (fit.pc = "paint")

\* the loop has been left by its test, from the largest font size, on a text
\* of several characters that fits the 2 px wide rect at no size
C4_Witness ==
  /\ fit.pc = "paint"
  /\ fit.fontSize < minFontSize
  /\ baseFontSize(overlay) = Px(400)
  /\ rect.width = 2
  /\ Len(overlay.newText) > 1

\* Claim C5: the font size used for painting (ctx.font after the autofit
\* loop) is never below 6 px; a text that fits at no size is painted at 6 px.
C5_PaintedAtSixOrMore ==
  (phase = "rendered" /\ rect.width > 0 /\ rect.height > 0) =>
    ctx.font.size >= Px(6)

(***************************************************************************)
(* SpecMeasure: measureLineWidth on lines of up to MaxChars characters     *)
(***************************************************************************)
MeasuredLines == UNION { [1..n -> {"A", "V"}] : n \in 0..MaxChars }

\* letter spacings in units: -2 px, 0, a quarter pixel, 1 px, 12 px
Spacings == { Px(-2), 0, Half \div 2, Px(1), Px(12) }

InitMeasure ==
  /\ kern \in {0, 1}
  /\ \E c \in {DefaultCtx, UsedCtx} : Loaded(Blank(1, 1), 1, 1, c)

MeasureLine ==
  /\ \E text \in MeasuredLines, letterSpacing \in Spacings :
       measure' = [text |-> text, letterSpacing |-> letterSpacing,
                   width |-> measureLineWidth(ctx.font, text, letterSpacing)]
  /\ UNCHANGED <<image, canvas, ctx, kern, overlay, rect, calls, entry, fresh, phase, fit>>
  /\ UNCHANGED uiVars

NextMeasure == MeasureLine

SpecMeasure == InitMeasure /\ [][NextMeasure]_vars

\* Claim C10 as stated: a non-empty line measures, with letterSpacing 0, what
\* the host measures for the whole line, and with letterSpacing s # 0 that
\* native measure plus s * (characterCount - 1); an empty line measures 0.
C10_NativePlusSpacing ==
  measure.width =
    IF measure.text = <<>> THEN 0
    ELSE measureText(ctx.font, measure.text)
           + measure.letterSpacing * (Len(measure.text) - 1)

\* the host's measures of the characters of a line, each taken alone
RECURSIVE C10_NativeSumOfChars(_, _)
C10_NativeSumOfChars(text, i) ==
  IF i > Len(text) THEN 0
  ELSE measureText(ctx.font, <<text[i]>>) + C10_NativeSumOfChars(text, i + 1)

\* Claim C10, amended: with letterSpacing 0 a non-empty line measures what the
\* host measures for the whole line; with letterSpacing s # 0 it measures the
\* sum of the host's measures of its characters, each measured alone, plus
\* s * (characterCount - 1); an empty line measures 0.
C10_GlyphSumPlusSpacing ==
  measure.width =
    IF measure.text = <<>> THEN 0
    ELSE IF measure.letterSpacing = 0 THEN measureText(ctx.font, measure.text)
    ELSE C10_NativeSumOfChars(measure.text, 1)
           + measure.letterSpacing * (Len(measure.text) - 1)

\* a spaced line with a pair the host kerns has been measured
C10_Witness ==
  /\ kern = 1
  /\ measure.letterSpacing # 0
  /\ Len(measure.text) >= 2
  /\ \E i \in 1..(Len(measure.text) - 1) :
       measure.text[i] = "A" /\ measure.text[i + 1] = "V"
  /\ measure.width > 0

(***************************************************************************)
(* Claims about one rendered overlay (Spec)                                *)
(***************************************************************************)
\* Claim C6: for every overlay and every background mode, every pixel
\* outside the resolved rect is unchanged by renderTextOverlay, even when
\* the text block overflows the rect.
C6_OutsideRectUnchanged ==
  phase = "rendered" =>
    \A p \in DOMAIN canvas.data :
      (\/ p[1] < rect.x \/ p[1] >= rect.x + rect.width
       \/ p[2] < rect.y \/ p[2] >= rect.y + rect.height)
        => canvas.data[p] = image[p]

\* a clone-mode overlay whose text runs past the bottom of its rect has been
\* rendered, and the rect is smaller than the canvas
C6_Witness ==
  /\ phase = "rendered"
  /\ overlay.backgroundMode = "clone"
  /\ rect.width > 0 /\ rect.height > 0
  /\ rect.y + rect.height < canvas.height
  /\ canvas.data # image
  /\ \E i \in DOMAIN calls :
       /\ calls[i].op = "fillText"
       /\ calls[i].y + ctx.font.size > Px(rect.y + rect.height)

\* Claim C7: renderTextOverlay is deterministic: run on the same pixels with
\* the same overlay, it leaves the same pixels, whatever drawing state the
\* context was left in before (here: a context just created and the context
\* the call was made on).
C7_SamePixelsWhateverTheContext == phase = "rendered" => canvas.data = fresh

\* text has been painted on a context that came with another drawing state
\* than a context just created
C7_Witness ==
  /\ phase = "rendered"
  /\ entry # DefaultCtx
  /\ canvas.data # image
  /\ \E i \in DOMAIN calls : calls[i].op = "fillText"

\* the candidate directions of the rendered overlay, in the order tried
C8_Order ==
  IF overlay.cloneDirection = "" THEN <<"up", "down", "left", "right">>
  ELSE <<overlay.cloneDirection>>

\* the origin of the source region of direction d: the rect moved away by
\* its height + 2 (up, down) or its width + 2 (left, right)
C8_Source(d) ==
  [x |-> rect.x + (IF d = "left" THEN -(rect.width + 2)
                   ELSE IF d = "right" THEN rect.width + 2 ELSE 0),
   y |-> rect.y + (IF d = "up" THEN -(rect.height + 2)
                   ELSE IF d = "down" THEN rect.height + 2 ELSE 0)]

C8_InBounds(d) ==
  /\ C8_Source(d).x >= 0 /\ C8_Source(d).x + rect.width <= canvas.width
  /\ C8_Source(d).y >= 0 /\ C8_Source(d).y + rect.height <= canvas.height

\* the pixel reads and writes of the call: [op, x, y, w, h]
C8_Transfers ==
  LET t == SelectSeq(calls, LAMBDA c : c.op \in {"getImageData", "putImageData"})
  IN [i \in 1..Len(t) |-> <<t[i].op, t[i].x, t[i].y, t[i].w, t[i].h>>]

\* Claim C8: in clone mode a set cloneDirection is the only direction
\* tried; unset, the directions are tried in the order up, down, left, right
\* and the background is cloned from the first whose source region is inside
\* the canvas: that region and the rect are read, the rect is written, and
\* nothing else is read or written.  When only the down source is inside
\* the canvas, the region read starts at y = rect.y + rect.height + 2.
C8_FirstInBoundsDirection ==
  (phase = "rendered" /\ overlay.backgroundMode = "clone"
     /\ rect.width > 0 /\ rect.height > 0) =>
    LET valid == SelectSeq(C8_Order, C8_InBounds)
    IN IF valid # <<>>
       THEN C8_Transfers =
              << <<"getImageData", C8_Source(valid[1]).x, C8_Source(valid[1]).y,
                   rect.width, rect.height>>,
                 <<"getImageData", rect.x, rect.y, rect.width, rect.height>>,
                 <<"putImageData", rect.x, rect.y, rect.width, rect.height>> >>
       ELSE \A i \in DOMAIN C8_Transfers : C8_Transfers[i][1] # "putImageData"

\* no direction is set, of the four sources only the one below the rect is
\* inside the canvas, and the region read starts at rect.y + rect.height + 2
C8_Witness ==
  /\ phase = "rendered" /\ overlay.backgroundMode = "clone"
  /\ overlay.cloneDirection = ""
  /\ rect.width > 0 /\ rect.height > 0
  /\ ~C8_InBounds("up") /\ C8_InBounds("down")
  /\ ~C8_InBounds("left") /\ ~C8_InBounds("right")
  /\ C8_Transfers[1] =
       <<"getImageData", rect.x, rect.y + rect.height + 2, rect.width, rect.height>>

\* the colours of the four one-pixel strips around the rect, by their first pixel
C9_Left == image[<<rect.x - 1, rect.y>>]

C9_Right == image[<<rect.x + rect.width, rect.y>>]

C9_Top == image[<<rect.x, rect.y - 1>>]

C9_Bottom == image[<<rect.x, rect.y + rect.height>>]

\* the rect has an in-bounds strip on each side, each of one colour, the four
\* colours different, and clone mode finds no source inside the canvas
C9_Framed ==
  /\ phase = "rendered" /\ overlay.backgroundMode = "clone"
  /\ rect.width > 0 /\ rect.height > 0
  /\ \A i \in DOMAIN C8_Order : ~C8_InBounds(C8_Order[i])
  /\ rect.x > 0 /\ rect.x + rect.width < canvas.width
  /\ rect.y > 0 /\ rect.y + rect.height < canvas.height
  /\ \A y \in rect.y..(rect.y + rect.height - 1) :
       /\ image[<<rect.x - 1, y>>] = C9_Left
       /\ image[<<rect.x + rect.width, y>>] = C9_Right
  /\ \A x \in rect.x..(rect.x + rect.width - 1) :
       /\ image[<<x, rect.y - 1>>] = C9_Top
       /\ image[<<x, rect.y + rect.height>>] = C9_Bottom
  /\ Cardinality({C9_Left, C9_Right, C9_Top, C9_Bottom}) = 4

\* the colour the rect was flat-filled with
C9_Fill ==
  ColorOf(SelectSeq(calls, LAMBDA c : c.op = "fillRect")[1].arg)

C9_Abs(n) == IF n < 0 THEN -n ELSE n

\* Claim C9 as stated: the fill colour is, per channel and within rounding
\* (less than 1), the arithmetic mean of the four strip colours, for every
\* rect width and height.
C9_MeanOfFourStrips ==
  C9_Framed =>
    \A ch \in 1..3 :
      C9_Abs(4 * C9_Fill[ch] - (C9_Left[ch] + C9_Right[ch] + C9_Top[ch] + C9_Bottom[ch])) < 4

\* Claim C9, amended: the fill colour is, per channel and rounded to the
\* nearest integer, the mean over all sampled strip pixels, that is
\* (height * (left + right) + width * (top + bottom)) / (2 * (width + height));
\* it is the arithmetic mean of the four strip colours when width = height.
C9_MeanOfStripPixels ==
  C9_Framed =>
    \A ch \in 1..3 :
      LET sum == rect.height * (C9_Left[ch] + C9_Right[ch])
                   + rect.width * (C9_Top[ch] + C9_Bottom[ch])
          count == 2 * (rect.width + rect.height)
      IN /\ 2 * C9_Abs(count * C9_Fill[ch] - sum) <= count
         /\ rect.width = rect.height =>
              2 * C9_Abs(4 * C9_Fill[ch]
                        - (C9_Left[ch] + C9_Right[ch] + C9_Top[ch] + C9_Bottom[ch])) <= 4

\* a rect wider than high, framed by four strips, has been flat-filled
C9_Witness == C9_Framed /\ rect.width > rect.height

(***************************************************************************)
(* Claims about the placement of the painted lines (SpecFit)               *)
(***************************************************************************)
\* the fillText calls of the paint, in order
C11_Fills == SelectSeq(calls, LAMBDA c : c.op = "fillText")

\* the letter spacing and the line height (in tenths) of the fitted overlay,
\* both given in range
C11_Spacing == overlay.letterSpacing.v

C11_LineHeightPx == (fit.fontSize * overlay.lineHeight.v) \div 10

\* the number of fillText calls line j takes: none when empty, one when the
\* letter spacing is 0, one per character otherwise
C11_CallsOf(j) ==
  IF fit.lines[j] = <<>> THEN 0
  ELSE IF C11_Spacing = 0 THEN 1 ELSE Len(fit.lines[j])

RECURSIVE C11_CallsBefore(_)
C11_CallsBefore(i) == IF i <= 1 THEN 0 ELSE C11_CallsBefore(i - 1) + C11_CallsOf(i - 1)

\* the top of the text block by the vertical alignment, before and after it
\* is kept from rising above the rect
C11_BlockTop ==
  LET blockHeight == Len(fit.lines) * C11_LineHeightPx
  IN IF overlay.vAlign = "middle" THEN Px(rect.y) + (Px(rect.height) - blockHeight) \div 2
     ELSE IF overlay.vAlign = "bottom" THEN Px(rect.y) + Px(rect.height) - blockHeight
     ELSE Px(rect.y)

C11_StartY == IF C11_BlockTop < Px(rect.y) THEN Px(rect.y) ELSE C11_BlockTop

\* the left edge of a line by the horizontal alignment
C11_Left(line) ==
  LET lineWidth == measureLineWidth(ctx.font, line, C11_Spacing)
  IN IF overlay.hAlign = "center" THEN Px(rect.x) + (Px(rect.width) - lineWidth) \div 2
     ELSE IF overlay.hAlign = "right" THEN Px(rect.x) + Px(rect.width) - lineWidth
     ELSE Px(rect.x)

\* Claim C11: each painted line is placed by the alignment formulae: its left
\* edge is rect.x (left), rect.x + (rect.width - lineWidth) / 2 (center) or
\* rect.x + rect.width - lineWidth (right); the block's top is rect.y (top),
\* rect.y + (rect.height - blockHeight) / 2 (middle) or
\* rect.y + rect.height - blockHeight (bottom), never above rect.y; line i
\* is at startY + i * fontSize * lineHeight.  The text is drawn from its top
\* left corner (baseline "top", align "left").
C11_AlignedPlacement ==
  fit.pc = "done" =>
    /\ ctx.textBaseline = "top" /\ ctx.textAlign = "left"
    /\ ctx.font.size = fit.fontSize
    /\ Len(C11_Fills) = C11_CallsBefore(Len(fit.lines) + 1)
    /\ \A i \in 1..Len(fit.lines) :
         fit.lines[i] # <<>> =>
           LET c == C11_Fills[C11_CallsBefore(i) + 1]
           IN /\ c.x = C11_Left(fit.lines[i])
              /\ c.y = C11_StartY + (i - 1) * C11_LineHeightPx
              /\ c.y >= Px(rect.y)

\* a single line that fits its rect has been painted centred and in the
\* middle, right of the rect's left edge and below its top
C11_Witness ==
  /\ fit.pc = "done"
  /\ overlay.hAlign = "center" /\ overlay.vAlign = "middle"
  /\ Len(fit.lines) = 1 /\ Len(C11_Fills) = 1
  /\ C11_Fills[1].x > Px(rect.x)
  /\ C11_Fills[1].y > Px(rect.y)
  /\ 2 * (C11_Fills[1].y - Px(rect.y)) + Len(fit.lines) * C11_LineHeightPx = Px(rect.height)


\* ---------------------------------------------------------------------------
\* The style normalizers of the renderer and of the editing UI, applied to the
\* same value
\* ---------------------------------------------------------------------------

\* the longest string put through a normalizer
MaxStyleChars == 4

\* all strings of at most n characters of an alphabet
RECURSIVE StringsUpTo(_, _)
StringsUpTo(alphabet, n) ==
  IF n = 0 THEN {<<>>}
  ELSE LET shorter == StringsUpTo(alphabet, n - 1)
       IN shorter \cup { <<c>> \o s : c \in alphabet, s \in { t \in shorter : Len(t) = n - 1 } }

ColorStrings ==
  StringsUpTo({"#", "a", "F", "0", "g", " "}, MaxStyleChars)
    \cup { <<"#", "a", "a", "b", "b", "c", "c">>,
           <<"#", "A", "b", "C", "d", "E", "f">>,
           <<"#", "1", "2", "3", "4", "5", "g">>,
           <<"#", "a", "b", "c", "d">>,
           <<" ", "#", "a", "a", "b", "b", "c", "c", " ">>,
           <<"n", "o", "t", "a", "c", "o", "l", "o", "r">> }

WeightValues ==
  { Num(n) : n \in {-150, -50, 0, 49, 50, 100, 149, 150, 450, 500, 733, 750, 850, 900,
                    949, 950, 1000000} }
    \cup {NaN, Undefined}
    \cup { Str(s) : s \in StringsUpTo({"7", "5", "0", "-", " ", "x"}, MaxStyleChars) }

\* the second argument of normalizeFontWeight: its default, and font weights
\* the form holds when commitFontWeightInput passes its state
WeightFallbacks == {500, 600, 450}

NumberStrings == { Str(s) : s \in StringsUpTo({"1", "5", ".", "-", " ", "x"}, MaxStyleChars) }

\* line heights, in tenths
LineHeightValues == { Num(n) : n \in -1..30 } \cup {NaN, Undefined} \cup NumberStrings

\* letter spacings, in units
LetterSpacingValues ==
  { Num(n * Half) : n \in -6..26 } \cup {NaN, Undefined} \cup NumberStrings

\* a tenth, in units
Tenth == Unit \div 10

\* a line height in the units of parseFloat's result
LineHeightInUnits(value) == IF value.k = "num" THEN Num(value.v * Tenth) ELSE value

\* each run puts one value through the normalizers of one style field
InitStyle ==
  /\ kern = 0
  /\ Loaded(Blank(1, 1), 1, 1, DefaultCtx)

NormalizeColor ==
  /\ norm.kind = "none"
  /\ \E value \in ColorStrings, fallback \in {White, Black} :
       norm' = [kind |-> "color", value |-> Str(value), fallback |-> fallback,
                renderer |-> normalizeHexColor(value, fallback),
                ui |-> uiNormalizeHexColor(value, fallback)]
  /\ UNCHANGED <<image, canvas, ctx, kern, overlay, rect, calls, entry, fresh, phase, fit,
                 measure, slide, sites, form, app, editor, settings>>

NormalizeWeight ==
  /\ norm.kind = "none"
  /\ \E value \in WeightValues, fallback \in WeightFallbacks :
       norm' = [kind |-> "weight", value |-> value, fallback |-> fallback,
                renderer |-> normalizeWeight(value),
                ui |-> normalizeFontWeight(value, fallback)]
  /\ UNCHANGED <<image, canvas, ctx, kern, overlay, rect, calls, entry, fresh, phase, fit,
                 measure, slide, sites, form, app, editor, settings>>

\* the renderer's line height is in tenths, the form's in units
NormalizeLineHeight ==
  /\ norm.kind = "none"
  /\ \E value \in LineHeightValues :
       norm' = [kind |-> "lineHeight", value |-> value, fallback |-> 12 * Tenth,
                renderer |-> normalizeLineHeight(value) * Tenth,
                ui |-> normalizeNumber(LineHeightInUnits(value), 8 * Tenth, 24 * Tenth,
                                       12 * Tenth)]
  /\ UNCHANGED <<image, canvas, ctx, kern, overlay, rect, calls, entry, fresh, phase, fit,
                 measure, slide, sites, form, app, editor, settings>>

NormalizeLetterSpacing ==
  /\ norm.kind = "none"
  /\ \E value \in LetterSpacingValues :
       norm' = [kind |-> "letterSpacing", value |-> value, fallback |-> 0,
                renderer |-> normalizeLetterSpacing(value),
                ui |-> normalizeNumber(value, Px(-2), Px(12), 0)]
  /\ UNCHANGED <<image, canvas, ctx, kern, overlay, rect, calls, entry, fresh, phase, fit,
                 measure, slide, sites, form, app, editor, settings>>

NextStyle ==
  \/ NormalizeColor
  \/ NormalizeWeight
  \/ NormalizeLineHeight
  \/ NormalizeLetterSpacing

SpecStyle == InitStyle /\ [][NextStyle]_vars

Hundreds == { 100 * n : n \in 1..9 }

\* the weight the rule gives: the integer the value parses to, rounded to the
\* nearest hundred and limited to 100..900, and 500 where nothing parses
C12_Expected(value) ==
  LET parsed == IF value.k = "undef" THEN NaN ELSE ParseIntOf(value)
  IN IF parsed.k = "nan" THEN 500
     ELSE CHOOSE w \in Hundreds :
            \A other \in Hundreds :
              LET d == IF parsed.v >= w THEN parsed.v - w ELSE w - parsed.v
                  e == IF parsed.v >= other THEN parsed.v - other ELSE other - parsed.v
              IN d < e \/ (d = e /\ w >= other)

\* C12: for every input both font-weight normalizers return one of 100, 200,
\* ..., 900: the integer parsed from the input, rounded to the nearest
\* multiple of 100 and limited to 100..900, and 500 for a missing, NaN or
\* unparseable input.
C12_WeightRoundedOrDefault ==
  norm.kind = "weight" =>
    /\ norm.renderer \in Hundreds
    /\ norm.ui \in Hundreds
    /\ norm.renderer = C12_Expected(norm.value)
    /\ norm.ui = C12_Expected(norm.value)


\* the renderer's normalizer, and the form's with the default fallback, follow
\* the rule
C12_RuleAtDefault ==
  norm.kind = "weight" =>
    /\ norm.renderer \in Hundreds
    /\ norm.renderer = C12_Expected(norm.value)
    /\ norm.fallback = 500 => norm.ui = norm.renderer


\* the colour the rule gives for a string, surrounding white space aside
C13_Expected(value, fallback) ==
  LET v == Trim(value)
  IN IF Len(v) = 7 /\ v[1] = "#" /\ \A i \in 2..7 : IsHexDigit(v[i]) THEN v
     ELSE IF Len(v) = 4 /\ v[1] = "#" /\ \A i \in 2..4 : IsHexDigit(v[i])
          THEN <<"#">> \o [i \in 1..6 |-> v[2 + (i - 1) \div 2]]
          ELSE fallback

\* C13: for every input string both normalizeHexColor functions return a
\* 6-digit hex colour as it is, a 3-digit one with every digit doubled
\* ("#abc" -> "#aabbcc"), and the fallback for anything else.
C13_HexOrFallback ==
  norm.kind = "color" =>
    /\ norm.renderer = C13_Expected(norm.value.s, norm.fallback)
    /\ norm.ui = C13_Expected(norm.value.s, norm.fallback)

\* the renderer's normalizeHexColor follows the rule, and the form's returns
\* the same colour in capitals
C13_RendererRule ==
  norm.kind = "color" =>
    /\ norm.renderer = C13_Expected(norm.value.s, norm.fallback)
    /\ norm.ui = IF norm.renderer = norm.fallback /\ C13_Expected(norm.value.s, <<>>) = <<>>
                 THEN norm.fallback
                 ELSE ToUpperCase(norm.renderer)


\* C14: for every input value the renderer's normalizer and the editing UI's
\* normalizer of the same style field, with the same range and default, return
\* the same result.
C14_SameResult ==
  (norm.kind \in {"color", "lineHeight", "letterSpacing"}
     \/ (norm.kind = "weight" /\ norm.fallback = 500))
    => norm.renderer = norm.ui

\* the two sites agree on every font weight, and on every line height and
\* letter spacing that is a number, NaN or missing
C14_AgreeOnNumbers ==
  ((norm.kind = "weight" /\ norm.fallback = 500)
     \/ (norm.kind \in {"lineHeight", "letterSpacing"} /\ norm.value.k # "str"))
    => norm.renderer = norm.ui

\* the two sites disagree on a line height given as a string
C14_StringLineHeight ==
  ~(norm.kind = "lineHeight" /\ norm.value = Str(<<"1", ".", "5">>)
      /\ norm.renderer = 12 * Tenth /\ norm.ui = 15 * Tenth)


\* ---------------------------------------------------------------------------
\* SpecSlide: the three call sites compose the overlays of one slide: the
\* editor preview (EditorCanvas draw), the PNG export (handleDownloadImages)
\* and the PDF/PPTX export (renderSlideToCanvas)
\* ---------------------------------------------------------------------------

\* the longest overlay list of a slide
MaxOverlays == 2

SiteNames == {"preview", "png", "export"}

\* overlays applied to a slide: two flat fills that overlap, a clone, a fill
\* from the neighbour average, and a text on a flat fill
SlideOverlaySet ==
  { [MakeOverlay([x |-> 0, y |-> 0, width |-> Px(3), height |-> Px(3)],
                 [backgroundMode |-> "solid", cloneDirection |-> "up"], PlainStyle)
       EXCEPT !.backgroundColor = <<"#", "f", "0", "0">>],
    [MakeOverlay([x |-> Px(1), y |-> Px(1), width |-> Px(3), height |-> Px(3)],
                 [backgroundMode |-> "solid", cloneDirection |-> "up"], PlainStyle)
       EXCEPT !.backgroundColor = <<"#", "0", "0", "f">>],
    MakeOverlay([x |-> Px(1), y |-> Px(2), width |-> Px(2), height |-> Px(2)],
                [backgroundMode |-> "clone", cloneDirection |-> "up"], PlainStyle),
    MakeOverlay([x |-> Px(2), y |-> Px(2), width |-> Px(2), height |-> Px(2)],
                [backgroundMode |-> "clone", cloneDirection |-> ""], PlainStyle),
    [MakeOverlay([x |-> 0, y |-> Px(1), width |-> Px(CanvasSide), height |-> Px(4)],
                 [backgroundMode |-> "solid", cloneDirection |-> "up"], PlainStyle)
       EXCEPT !.newText = <<"A", "V">>, !.fontColor = <<"#", "0", "8", "0">>,
              !.fontWeight = Num(733), !.fontFamily = "Arial"] }

\* overlay lists of at most n overlays
RECURSIVE OverlayLists(_)
OverlayLists(n) ==
  IF n = 0 THEN {<<>>}
  ELSE LET shorter == OverlayLists(n - 1)
       IN shorter \cup { <<o>> \o l : o \in SlideOverlaySet,
                                      l \in { m \in shorter : Len(m) = n - 1 } }

\* a canvas element before its first use
IdleSite == [pc |-> "idle", data |-> Blank(CanvasSide, CanvasSide), ctx |-> DefaultCtx]

InitSlide ==
  /\ kern = 1
  /\ \E img \in {Frame(CanvasSide, CanvasSide), Gradient(CanvasSide, CanvasSide)} :
       /\ image = img
       /\ canvas = [width |-> CanvasSide, height |-> CanvasSide, data |-> img]
       /\ fresh = img
  /\ ctx = DefaultCtx
  /\ entry = DefaultCtx
  /\ overlay = NoOverlay
  /\ rect = NoRect
  /\ calls = <<>>
  /\ phase = "image"
  /\ fit = NoFit
  /\ measure = NoMeasure
  /\ norm = NoNorm
  /\ slide \in { [overlays |-> l] : l \in OverlayLists(MaxOverlays) }
  /\ sites = [n \in SiteNames |-> IdleSite]
  /\ form = NoForm
  /\ app = NoApp
  /\ editor = NoEditor
  /\ settings = NoSettings

\* the canvas of a call site after ctx.drawImage(image, 0, 0), with the
\* drawing state c
SiteCanvas(c) ==
  [data |-> image, width |-> CanvasSide, height |-> CanvasSide,
   ctx |-> c, clip |-> NoClip, saved |-> <<>>, calls |-> <<>>]

\* the mutant renders the list from its end
RECURSIVE RenderOverlaysBackwards(_, _)
RenderOverlaysBackwards(S, overlays) ==
  IF overlays = <<>> THEN S
  ELSE Only({ RenderOverlaysBackwards(T, SubSeq(overlays, 1, Len(overlays) - 1)) :
                T \in {renderTextOverlay(S, overlays[Len(overlays)])} })

\* slide.overlays.forEach((overlay) => renderTextOverlay(ctx, overlay))
RECURSIVE RenderOverlays(_, _)
RenderOverlays(S, overlays) ==
  IF overlays = <<>> THEN S
  ELSE Only({ RenderOverlays(T, Tail(overlays)) :
                T \in {renderTextOverlay(S, Head(overlays))} })

\* a call site has composed the slide on its canvas
Composed(S) == [pc |-> "composed", data |-> S.data, ctx |-> S.ctx]

SiteUnchanged ==
  UNCHANGED <<image, canvas, ctx, kern, overlay, rect, calls, entry, fresh, phase, fit,
              measure, norm, slide, form, app, editor, settings>>

\* EditorCanvas draw: the compose canvas and its context are kept from one
\* draw to the next; without a context draw returns
draw ==
  /\ \E available \in BOOLEAN :
       IF ~available
       THEN sites' = [sites EXCEPT !["preview"].pc = "returned"]
       ELSE \E S \in {RenderOverlays(SiteCanvas(sites["preview"].ctx), slide.overlays)} :
              sites' = [sites EXCEPT !["preview"] = Composed(S)]
  /\ SiteUnchanged

\* App handleDownloadImages, for the slide: a new canvas; without a context
\* the slide is skipped, else its image is loaded
handleDownloadImages ==
  /\ sites["png"].pc # "loading"
  /\ \E available \in BOOLEAN :
       sites' = [sites EXCEPT !["png"] =
                   [IdleSite EXCEPT !.pc = IF available THEN "loading" ELSE "returned"]]
  /\ SiteUnchanged

\* img.onload of handleDownloadImages
imgOnload ==
  /\ sites["png"].pc = "loading"
  /\ \E S \in {RenderOverlays(SiteCanvas(DefaultCtx), slide.overlays)} :
       sites' = [sites EXCEPT !["png"] = Composed(S)]
  /\ SiteUnchanged

\* renderSlideToCanvas up to its await: a new canvas; without a context it
\* throws
renderSlideToCanvas ==
  /\ sites["export"].pc # "loading"
  /\ \E available \in BOOLEAN :
       sites' = [sites EXCEPT !["export"] =
                   [IdleSite EXCEPT !.pc = IF available THEN "loading" ELSE "threw"]]
  /\ SiteUnchanged

\* renderSlideToCanvas after the image has loaded
renderSlideLoaded ==
  /\ sites["export"].pc = "loading"
  /\ \E S \in {RenderOverlays(SiteCanvas(DefaultCtx), slide.overlays)} :
       sites' = [sites EXCEPT !["export"] = Composed(S)]
  /\ SiteUnchanged

NextSlide ==
  \/ draw
  \/ handleDownloadImages
  \/ imgOnload
  \/ renderSlideToCanvas
  \/ renderSlideLoaded

SpecSlide == InitSlide /\ [][NextSlide]_vars

\* C15: at every call site, a canvas that gives no 2D context makes the call
\* fail explicitly (an error is thrown or reported): no call site returns
\* silently.
C15_FailureSignalled ==
  \A n \in DOMAIN sites : sites[n].pc # "returned"

\* the PDF/PPTX export throws when its canvas gives no context
C15_ExportThrows == sites # NoSites /\ sites["export"].pc = "threw"

\* a call site other than the export never throws
C15_OnlyExportThrows ==
  \A n \in DOMAIN sites : sites[n].pc = "threw" => n = "export"


\* the pixels of the in-bounds one-pixel strips around the rect
C16_Neighbours ==
  { p \in DOMAIN image :
      \/ /\ p[1] \in {rect.x - 1, rect.x + rect.width}
         /\ p[2] \in rect.y..(rect.y + rect.height - 1)
      \/ /\ p[2] \in {rect.y - 1, rect.y + rect.height}
         /\ p[1] \in rect.x..(rect.x + rect.width - 1) }

RECURSIVE C16_Sum(_, _)
C16_Sum(pixels, ch) ==
  IF pixels = {} THEN 0
  ELSE LET p == CHOOSE q \in pixels : TRUE
       IN image[p][ch] + C16_Sum(pixels \ {p}, ch)

\* clone mode finds no source inside the canvas for the rendered overlay
C16_NoSource ==
  /\ phase = "rendered" /\ overlay.backgroundMode = "clone"
  /\ rect.width > 0 /\ rect.height > 0
  /\ \A i \in DOMAIN C8_Order : ~C8_InBounds(C8_Order[i])

\* the overlay's background colour, normalized: "#ffffff" if malformed
C16_Declared ==
  LET v == Trim(overlay.backgroundColor)
      hex == Len(v) \in {4, 7} /\ v[1] = "#" /\ \A i \in 2..Len(v) : IsHexDigit(v[i])
  IN IF ~hex THEN ColorOf(White)
     ELSE IF Len(v) = 7 THEN ColorOf(v)
     ELSE ColorOf(<<"#", v[2], v[2], v[3], v[3], v[4], v[4]>>)

\* C16: in clone mode, when no candidate direction has a source inside
\* the canvas, the rect is flat-filled: with the average colour of the
\* in-bounds one-pixel neighbour strips, and with the overlay's normalized
\* backgroundColor ("#ffffff" if malformed) when the rect spans the whole
\* canvas and no neighbouring pixel exists.
C16_FlatFillFallback ==
  C16_NoSource =>
    LET fills == SelectSeq(calls, LAMBDA c : c.op = "fillRect")
        count == Cardinality(C16_Neighbours)
    IN /\ Len(fills) = 1
       /\ <<fills[1].x, fills[1].y, fills[1].w, fills[1].h>>
            = <<rect.x, rect.y, rect.width, rect.height>>
       /\ \A i \in DOMAIN calls : calls[i].op # "putImageData"
       /\ IF count = 0
          THEN /\ rect.width = canvas.width /\ rect.height = canvas.height
               /\ ColorOf(fills[1].arg) = C16_Declared
          ELSE \A ch \in 1..3 :
                 LET d == count * ColorOf(fills[1].arg)[ch] - C16_Sum(C16_Neighbours, ch)
                 IN -count < 2 * d /\ 2 * d <= count
       /\ overlay.newText = <<>> =>
            \A p \in DOMAIN canvas.data :
              canvas.data[p] = IF InRect(p[1], p[2], rect) THEN ColorOf(fills[1].arg)
                               ELSE image[p]

\* a rect that spans the whole canvas, with a malformed backgroundColor, has
\* been filled with white
C16_Witness ==
  /\ C16_NoSource
  /\ rect.width = canvas.width /\ rect.height = canvas.height
  /\ overlay.backgroundColor = <<"r", "e", "d">>
  /\ ColorOf(SelectSeq(calls, LAMBDA c : c.op = "fillRect")[1].arg) = ColorOf(White)

\* a rect with neighbours on some sides only has been filled with their average
C16_PartlyFramed ==
  /\ C16_NoSource
  /\ rect.x = 0 /\ rect.y > 0
  /\ Cardinality(C16_Neighbours) > 0

\* a rect that spans the whole canvas has been filled with a declared colour
\* that is not white
C16_DeclaredColour ==
  /\ C16_NoSource
  /\ Cardinality(C16_Neighbours) = 0
  /\ C16_Declared # ColorOf(White)


\* the canvas after the slide image and then the first i overlays of a list,
\* one after the other
RECURSIVE C17_After(_, _)
C17_After(overlays, i) ==
  IF i = 0 THEN SiteCanvas(DefaultCtx)
  ELSE Only({ renderTextOverlay(S, overlays[i]) : S \in {C17_After(overlays, i - 1)} })

UiBlack == ToUpperCase(Black)

UiWhite == ToUpperCase(White)

NoCommitted == [id |-> 0]

\* useState(...) of the style fields
InitialForm ==
  [fontSize |-> Px(16), fontSizeInput |-> Num(Px(16)),
   fontWeight |-> 500, fontWeightInput |-> Num(500),
   fontColor |-> UiBlack,
   letterSpacing |-> 0, letterSpacingInput |-> Num(0),
   lineHeight |-> 12 * Tenth, lineHeightInput |-> Num(12 * Tenth),
   backgroundColor |-> UiWhite,
   selection |-> FALSE, ocrResult |-> FALSE, selectedOverlayId |-> 0,
   committed |-> NoCommitted]

isCompleteNumberInput(value) ==
  Trim(value) \notin {<<>>, <<"-">>, <<"+">>, <<".">>, <<"-", ".">>, <<"+", ".">>}

\* the useEffect on selectedOverlay, and the same assignments of runAnalyze
\* from the OCR result
LoadStyle(f, o) ==
  LET nextFontSize == normalizeNumber(o.fontSize, Px(6), Px(400), Px(16))
      nextFontWeight == normalizeFontWeight(o.fontWeight, 500)
      nextLetterSpacing == normalizeNumber(o.letterSpacing, Px(-2), Px(12), 0)
      nextLineHeight == normalizeNumber(o.lineHeight, 8 * Tenth, 24 * Tenth, 12 * Tenth)
  IN [f EXCEPT !.fontSize = nextFontSize, !.fontSizeInput = Num(nextFontSize),
               !.fontWeight = nextFontWeight, !.fontWeightInput = Num(nextFontWeight),
               !.fontColor = uiNormalizeHexColor(o.fontColor, UiBlack),
               !.letterSpacing = nextLetterSpacing,
               !.letterSpacingInput = Num(nextLetterSpacing),
               !.lineHeight = nextLineHeight, !.lineHeightInput = Num(nextLineHeight),
               !.backgroundColor = uiNormalizeHexColor(o.backgroundColor, UiWhite)]

\* the style fields of an overlay the form builds, as values
StyleOf(f, id) ==
  [id |-> id,
   fontSize |-> Num(f.fontSize), fontWeight |-> Num(f.fontWeight),
   fontColor |-> f.fontColor, letterSpacing |-> Num(f.letterSpacing),
   lineHeight |-> Num(f.lineHeight), backgroundColor |-> f.backgroundColor]

\* what the OCR service may answer
OcrResults ==
  { [fontSize |-> Num(Px(1000)), fontWeight |-> Num(733),
     fontColor |-> <<"#", "a", "b", "c">>, letterSpacing |-> Num(Px(-5)),
     lineHeight |-> NaN, backgroundColor |-> <<"r", "e", "d">>] }

\* what the user types into the number inputs and picks in the colour inputs
WeightRaws == { <<>>, <<"4", "5", "0">> }

SizeRaws == { <<"5">> }

SpacingRaws == { <<"1", "3">> }

LineHeightRaws == { <<"3">> }

PickedColors == { <<"#", "a", "a", "b", "b", "c", "c">> }

InitSidebar ==
  /\ kern = 0
  /\ image = Blank(1, 1)
  /\ canvas = [width |-> 1, height |-> 1, data |-> Blank(1, 1)]
  /\ fresh = Blank(1, 1)
  /\ ctx = DefaultCtx
  /\ entry = DefaultCtx
  /\ overlay = NoOverlay
  /\ rect = NoRect
  /\ calls = <<>>
  /\ phase = "image"
  /\ fit = NoFit
  /\ measure = NoMeasure
  /\ norm = NoNorm
  /\ slide = NoSlide
  /\ sites = NoSites
  /\ form = InitialForm
  /\ app = NoApp
  /\ editor = NoEditor
  /\ settings = NoSettings

FormUnchanged ==
  UNCHANGED <<image, canvas, ctx, kern, overlay, rect, calls, entry, fresh, phase, fit,
              measure, norm, slide, sites, app, editor, settings>>

\* the user drags a region on the slide
select ==
  /\ form' = [form EXCEPT !.selection = TRUE, !.selectedOverlayId = 0]
  /\ FormUnchanged

\* runAnalyze, when the OCR service answers
runAnalyze ==
  /\ form.selection
  /\ \E result \in OcrResults :
       form' = [LoadStyle(form, result) EXCEPT !.ocrResult = TRUE]
  /\ FormUnchanged

fontSizeOnChange ==
  /\ \E raw \in SizeRaws :
       LET parsed == ParseFloat(raw)
       IN form' = [form EXCEPT
                     !.fontSizeInput = Str(raw),
                     !.fontSize = IF isCompleteNumberInput(raw) /\ parsed.k = "num"
                                     /\ parsed.v >= Px(6) /\ parsed.v <= Px(400)
                                  THEN parsed.v ELSE @]
  /\ FormUnchanged

fontWeightOnChange ==
  /\ \E raw \in WeightRaws :
       LET parsed == ParseInt(raw)
       IN form' = [form EXCEPT
                     !.fontWeightInput = Str(raw),
                     !.fontWeight = IF isCompleteNumberInput(raw) /\ parsed.k = "num"
                                       /\ parsed.v >= 100 /\ parsed.v <= 900
                                    THEN parsed.v ELSE @]
  /\ FormUnchanged

letterSpacingOnChange ==
  /\ \E raw \in SpacingRaws :
       LET parsed == ParseFloat(raw)
       IN form' = [form EXCEPT
                     !.letterSpacingInput = Str(raw),
                     !.letterSpacing = IF isCompleteNumberInput(raw) /\ parsed.k = "num"
                                          /\ parsed.v >= Px(-2) /\ parsed.v <= Px(12)
                                       THEN parsed.v ELSE @]
  /\ FormUnchanged

lineHeightOnChange ==
  /\ \E raw \in LineHeightRaws :
       LET parsed == ParseFloat(raw)
       IN form' = [form EXCEPT
                     !.lineHeightInput = Str(raw),
                     !.lineHeight = IF isCompleteNumberInput(raw) /\ parsed.k = "num"
                                       /\ parsed.v >= 8 * Tenth /\ parsed.v <= 24 * Tenth
                                    THEN parsed.v ELSE @]
  /\ FormUnchanged

commitFontSizeInput ==
  /\ \E next \in {normalizeNumber(form.fontSizeInput, Px(6), Px(400), form.fontSize)} :
       form' = [form EXCEPT !.fontSize = next, !.fontSizeInput = Num(next)]
  /\ FormUnchanged

commitFontWeightInput ==
  /\ \E next \in {normalizeFontWeight(form.fontWeightInput, form.fontWeight)} :
       form' = [form EXCEPT !.fontWeight = next, !.fontWeightInput = Num(next)]
  /\ FormUnchanged

commitLetterSpacingInput ==
  /\ \E next \in {normalizeNumber(form.letterSpacingInput, Px(-2), Px(12),
                                  form.letterSpacing)} :
       form' = [form EXCEPT !.letterSpacing = next, !.letterSpacingInput = Num(next)]
  /\ FormUnchanged

commitLineHeightInput ==
  /\ \E next \in {normalizeNumber(form.lineHeightInput, 8 * Tenth, 24 * Tenth,
                                  form.lineHeight)} :
       form' = [form EXCEPT !.lineHeight = next, !.lineHeightInput = Num(next)]
  /\ FormUnchanged

fontColorOnChange ==
  /\ \E value \in PickedColors :
       form' = [form EXCEPT !.fontColor = uiNormalizeHexColor(value, UiBlack)]
  /\ FormUnchanged

backgroundColorOnChange ==
  /\ \E value \in PickedColors :
       form' = [form EXCEPT !.backgroundColor = uiNormalizeHexColor(value, UiWhite)]
  /\ FormUnchanged

\* handleApply: the overlay goes to the slide as the form holds it; App
\* clears the selection and selects the new overlay, and the effect on
\* selectedOverlay loads the form from it
handleApply ==
  /\ form.selection /\ form.ocrResult
  /\ \E o \in {StyleOf(form, 1)} :
       form' = [LoadStyle(form, o) EXCEPT !.committed = o, !.selection = FALSE,
                                          !.selectedOverlayId = 1]
  /\ FormUnchanged

\* handleApplyEdit: the selected overlay takes the form's fields, and the
\* effect on selectedOverlay loads the form from it
handleApplyEdit ==
  /\ form.selectedOverlayId # 0
  /\ \E o \in {StyleOf(form, form.selectedOverlayId)} :
       form' = [LoadStyle(form, o) EXCEPT !.committed = o]
  /\ FormUnchanged

NextSidebar ==
  \/ select
  \/ runAnalyze
  \/ fontSizeOnChange
  \/ fontWeightOnChange
  \/ letterSpacingOnChange
  \/ lineHeightOnChange
  \/ commitFontSizeInput
  \/ commitFontWeightInput
  \/ commitLetterSpacingInput
  \/ commitLineHeightInput
  \/ fontColorOnChange
  \/ backgroundColorOnChange
  \/ handleApply
  \/ handleApplyEdit

SpecSidebar == InitSidebar /\ [][NextSidebar]_vars

C18_WellFormedHex(c) ==
  Len(c) = 7 /\ c[1] = "#" /\ \A i \in 2..7 : IsHexDigit(c[i])

\* C18: every overlay the form commits to the slide has fontWeight in
\* {100, 200, ..., 900}, fontSize in [6, 400], letterSpacing in [-2, 12],
\* lineHeight in [0.8, 2.4] and well-formed 6-digit hex colours.
C18_CommittedInvariants ==
  (form # NoForm /\ form.committed # NoCommitted) =>
    LET o == form.committed
    IN /\ o.fontWeight.v \in Hundreds
       /\ Px(6) <= o.fontSize.v /\ o.fontSize.v <= Px(400)
       /\ Px(-2) <= o.letterSpacing.v /\ o.letterSpacing.v <= Px(12)
       /\ 8 * Tenth <= o.lineHeight.v /\ o.lineHeight.v <= 24 * Tenth
       /\ C18_WellFormedHex(o.fontColor)
       /\ C18_WellFormedHex(o.backgroundColor)

\* every committed overlay has all its fields but fontWeight in range, and a
\* fontWeight that is an integer from 100 to 900
C18_AllButWeight ==
  (form # NoForm /\ form.committed # NoCommitted) =>
    LET o == form.committed
    IN /\ o.fontWeight.v \in 100..900
       /\ Px(6) <= o.fontSize.v /\ o.fontSize.v <= Px(400)
       /\ Px(-2) <= o.letterSpacing.v /\ o.letterSpacing.v <= Px(12)
       /\ 8 * Tenth <= o.lineHeight.v /\ o.lineHeight.v <= 24 * Tenth
       /\ C18_WellFormedHex(o.fontColor)
       /\ C18_WellFormedHex(o.backgroundColor)

\* an overlay is committed with the weight 450 after the weight input was
\* committed (blurred): cleared, the input falls back to the weight typed
C18_CommittedAfterBlur ==
  /\ form # NoForm /\ form.committed # NoCommitted
  /\ form.committed.fontWeight = Num(450)


\* ---------------------------------------------------------------------------
\* SpecWrap: one paragraph wrapped by wrapLineByChars, or one text wrapped by
\* wrapText, at a target width
\* ---------------------------------------------------------------------------

\* the longest text wrapped, in characters
MaxWrapChars == 4

\* paragraphs, and texts of several paragraphs
WrappedLines == UNION { [1..n -> {"A", "V"}] : n \in 0..MaxWrapChars }

WrappedTexts == UNION { [1..n -> {"A", "V", "\n"}] : n \in 0..MaxWrapChars }

\* target widths in units: drawText passes rect.width, a whole number of
\* pixels from 1 on
WrapWidths == { Px(n) : n \in {1, 2, 6, 10, 13, 20, 40} }

InitWrap ==
  /\ kern \in {0, 1}
  /\ \E c \in {DefaultCtx, UsedCtx} : Loaded(Blank(1, 1), 1, 1, c)

WrapUnchanged ==
  /\ UNCHANGED <<image, canvas, ctx, kern, overlay, rect, calls, entry, fresh, phase, fit>>
  /\ UNCHANGED uiVars

WrapLine ==
  /\ measure = NoMeasure
  /\ \E line \in WrappedLines, letterSpacing \in Spacings, maxWidth \in WrapWidths :
       measure' = [op |-> "wrapLineByChars", text |-> line, letterSpacing |-> letterSpacing,
                   width |-> maxWidth,
                   lines |-> wrapLineByChars(ctx.font, line, maxWidth, letterSpacing)]
  /\ WrapUnchanged

WrapText ==
  /\ measure = NoMeasure
  /\ \E text \in WrappedTexts, letterSpacing \in Spacings, maxWidth \in WrapWidths :
       measure' = [op |-> "wrapText", text |-> text, letterSpacing |-> letterSpacing,
                   width |-> maxWidth,
                   lines |-> wrapText(ctx.font, text, maxWidth, letterSpacing)]
  /\ WrapUnchanged

NextWrap ==
  \/ WrapLine
  \/ WrapText

SpecWrap == InitWrap /\ [][NextWrap]_vars

\* a paragraph has been wrapped
C19_Wrapped == measure # NoMeasure /\ measure.op = "wrapLineByChars"

RECURSIVE C19_Concat(_)
C19_Concat(lines) ==
  IF lines = <<>> THEN <<>> ELSE Head(lines) \o C19_Concat(Tail(lines))

\* the width of a line as painted: the whole-line measure without letter
\* spacing, else the sum of the characters' widths and the spacing between them
C19_Width(line) ==
  IF measure.letterSpacing = 0 THEN measureText(ctx.font, line)
  ELSE SumOfGlyphs(ctx.font, line) + measure.letterSpacing * (Len(line) - 1)

\* C19: for every paragraph and target width, the wrapped lines joined in
\* order are the paragraph, a non-empty paragraph yields no empty line, and
\* every output line of more than one character is at most as wide as the
\* target, the letter spacing between its characters included.
C19_GreedyLines ==
  C19_Wrapped =>
    /\ C19_Concat(measure.lines) = measure.text
    /\ measure.text # <<>> => \A i \in DOMAIN measure.lines : measure.lines[i] # <<>>
    /\ \A i \in DOMAIN measure.lines :
         Len(measure.lines[i]) > 1 => C19_Width(measure.lines[i]) <= measure.width

\* the three properties hold for every target width above one pixel, and the
\* first two for every target width
C19_GreedyAboveOnePixel ==
  C19_Wrapped =>
    /\ C19_Concat(measure.lines) = measure.text
    /\ measure.text # <<>> => \A i \in DOMAIN measure.lines : measure.lines[i] # <<>>
    /\ measure.width > Px(1) =>
         \A i \in DOMAIN measure.lines :
           Len(measure.lines[i]) > 1 => C19_Width(measure.lines[i]) <= measure.width

\* at a target width of one pixel a paragraph of two characters stays on one
\* line
C19_UnwrappedAtOnePixel ==
  /\ C19_Wrapped
  /\ measure.width = Px(1)
  /\ measure.text = <<"A", "V">>
  /\ measure.lines = << <<"A", "V">> >>

\* a paragraph has been broken into several lines, one of them of two characters
C19_Broken ==
  /\ C19_Wrapped
  /\ Len(measure.lines) > 1
  /\ \E i \in DOMAIN measure.lines : Len(measure.lines[i]) = 2


\* the newline-separated paragraphs of a text, from its end backwards: the
\* part after the last newline, and the paragraphs of the part before it
RECURSIVE C20_Paragraphs(_)
C20_Paragraphs(text) ==
  IF \A i \in DOMAIN text : text[i] # "\n" THEN <<text>>
  ELSE LET last == CHOOSE i \in DOMAIN text :
                     text[i] = "\n" /\ \A j \in (i + 1)..Len(text) : text[j] # "\n"
       IN Append(C20_Paragraphs(SubSeq(text, 1, last - 1)),
                 SubSeq(text, last + 1, Len(text)))

\* a text has been wrapped at a target width at which each of its paragraphs
\* fits on one line
C20_AllFit ==
  /\ measure # NoMeasure /\ measure.op = "wrapText"
  /\ measure.width > Px(1)
  /\ \A i \in DOMAIN C20_Paragraphs(measure.text) :
       C19_Width(C20_Paragraphs(measure.text)[i]) <= measure.width

\* C20: when every paragraph fits on one line, wrapText gives exactly one
\* line per newline-separated paragraph, an empty line for an empty
\* paragraph: k newlines between two runs of text give k - 1 empty lines.
C20_OneLinePerParagraph ==
  C20_AllFit => measure.lines = C20_Paragraphs(measure.text)

\* what wrapText gives instead: every paragraph once, and one more empty line
\* after each empty paragraph that is not the last
C20_EmptyParagraphTwice ==
  C20_AllFit =>
    LET paragraphs == C20_Paragraphs(measure.text)
        inner == { i \in 1..(Len(paragraphs) - 1) : paragraphs[i] = <<>> }
    IN /\ Len(measure.lines) = Len(paragraphs) + Cardinality(inner)
       /\ SelectSeq(measure.lines, LAMBDA l : l # <<>>)
            = SelectSeq(paragraphs, LAMBDA l : l # <<>>)
       /\ inner = {} => measure.lines = paragraphs

\* two newlines between two characters have given two empty lines
C20_TwoEmptyLines ==
  /\ C20_AllFit
  /\ measure.text = <<"V", "\n", "\n", "A">>
  /\ measure.lines = << <<"V">>, <<>>, <<>>, <<"A">> >>


\* ---------------------------------------------------------------------------
\* The size the autofit loop settles on (SpecFit)
\* ---------------------------------------------------------------------------

\* the sizes the spec's sequence holds: base, base - 0.5, ... down to 6
C21_Sizes ==
  LET base == baseFontSize(overlay)
  IN { base - k * (Px(1) \div 2) : k \in 0..((base - Px(6)) \div (Px(1) \div 2)) }

\* the block of the overlay's text, wrapped and measured at font size s, with
\* the lines given, is not higher and not wider than the rect
C21_BlockFits(lines, s) ==
  LET font == FontOf(overlay, s)
      letterSpacing == normalizeLetterSpacing(overlay.letterSpacing)
  IN /\ Len(lines) * ((s * normalizeLineHeight(overlay.lineHeight)) \div 10) <= Px(rect.height)
     /\ \A i \in DOMAIN lines :
          measureLineWidth(font, lines[i], letterSpacing) <= Px(rect.width)

C21_Fits(s) ==
  C21_BlockFits(wrapText(FontOf(overlay, s), overlay.newText, Px(rect.width),
                         normalizeLetterSpacing(overlay.letterSpacing)), s)

\* C21: if some size of the sequence base, base - 0.5, ... (>= 6) gives a
\* wrapped block that fits the rect, the text is painted at the largest such
\* size and the painted block fits the rect; the size painted at is never
\* above the clamped requested size.
C21_FirstFittingSize ==
  fit.pc = "done" =>
    /\ ctx.font.size <= baseFontSize(overlay)
    /\ (\E s \in C21_Sizes : C21_Fits(s)) =>
         /\ ctx.font.size \in C21_Sizes
         /\ C21_Fits(ctx.font.size)
         /\ \A s \in C21_Sizes : C21_Fits(s) => s <= ctx.font.size
         /\ C21_BlockFits(fit.lines, ctx.font.size)

\* a text asked for at 7 px has been painted at 6 px, the only size of the
\* sequence at which it fits
C21_Witness ==
  /\ fit.pc = "done"
  /\ baseFontSize(overlay) = Px(7)
  /\ ctx.font.size = Px(6)
  /\ C21_Fits(Px(6))
  /\ ~C21_Fits(Px(7)) /\ ~C21_Fits(Px(6) + Px(1) \div 2)
  /\ overlay.newText # <<>>


\* the fonts set on the context during the call, in order: one per pass of
\* the autofit loop, each followed by that pass's wrapText, and the font set
\* for painting
C22_Fonts ==
  LET f == SelectSeq(calls, LAMBDA c : c.op = "font")
  IN [i \in 1..Len(f) |-> f[i].arg]

C22_Drawn == phase = "rendered" /\ rect.width > 0 /\ rect.height > 0

\* C22: in every run of drawText the lines painted were wrapped and measured
\* under the font they are painted with: the font of the last wrapText call
\* is the font set for painting.
C22_WrappedAsPainted ==
  C22_Drawn =>
    /\ Len(C22_Fonts) >= 2
    /\ C22_Fonts[Len(C22_Fonts) - 1] = C22_Fonts[Len(C22_Fonts)]
    /\ ctx.font = C22_Fonts[Len(C22_Fonts)]

\* the two fonts agree whenever the loop was left by its break, that is
\* whenever the size painted at is 6 px or more; otherwise the last wrap was
\* made at 6 px and the painting is half a pixel below
C22_WrappedAsPaintedWhenFits ==
  C22_Drawn =>
    /\ Len(C22_Fonts) >= 2
    /\ ctx.font = C22_Fonts[Len(C22_Fonts)]
    /\ C22_Fonts[Len(C22_Fonts) - 1].family = ctx.font.family
    /\ C22_Fonts[Len(C22_Fonts) - 1].weight = ctx.font.weight
    /\ IF ctx.font.size >= minFontSize
       THEN C22_Fonts[Len(C22_Fonts) - 1] = ctx.font
       ELSE C22_Fonts[Len(C22_Fonts) - 1].size = ctx.font.size + Px(1) \div 2

\* a text that fits at no size was wrapped at 6 px and painted at 5.5 px
C22_PaintedBelowWrap ==
  /\ C22_Drawn
  /\ overlay.newText # <<>>
  /\ C22_Fonts[Len(C22_Fonts) - 1].size = Px(6)
  /\ ctx.font.size = Px(6) - Px(1) \div 2


\* ---------------------------------------------------------------------------
\* SpecSource: getSourceRect for one rect, canvas and direction
\* ---------------------------------------------------------------------------

\* the largest canvas side of SpecSource, in pixels
SourceSide == 6

\* the rects renderTextOverlay passes on: whole pixels, not empty, inside the
\* canvas (what toIntRect returns when it does not return an empty rect)
SourceRects(cW, cH) ==
  { [x |-> q[1], y |-> q[2], width |-> q[3], height |-> q[4]] :
      q \in { p \in (0..(cW - 1)) \X (0..(cH - 1)) \X (1..cW) \X (1..cH) :
                p[1] + p[3] <= cW /\ p[2] + p[4] <= cH } }

InitSource ==
  /\ kern = 0
  /\ Loaded(Blank(1, 1), 1, 1, DefaultCtx)

GetSource ==
  /\ norm = NoNorm
  /\ \E cW \in 1..SourceSide, cH \in 1..SourceSide :
     \E r \in SourceRects(cW, cH), direction \in {"up", "down", "left", "right"} :
       norm' = [kind |-> "source", rect |-> r, width |-> cW, height |-> cH,
                direction |-> direction,
                source |-> getSourceRect(r, cW, cH, direction)]
  /\ UNCHANGED <<image, canvas, ctx, kern, overlay, rect, calls, entry, fresh, phase, fit,
                 measure, slide, sites, form, app, editor, settings>>

NextSource == GetSource

SpecSource == InitSource /\ [][NextSource]_vars

\* the rect moved away in the direction by its height + 2 or its width + 2
C23_Moved ==
  LET r == norm.rect
      d == norm.direction
  IN [x |-> r.x + (IF d = "left" THEN -(r.width + 2)
                   ELSE IF d = "right" THEN r.width + 2 ELSE 0),
      y |-> r.y + (IF d = "up" THEN -(r.height + 2)
                   ELSE IF d = "down" THEN r.height + 2 ELSE 0),
      width |-> r.width, height |-> r.height]

C23_Inside(s) ==
  /\ 0 <= s.x /\ s.x + s.width <= norm.width
  /\ 0 <= s.y /\ s.y + s.height <= norm.height

C23_Overlap(a, b) ==
  /\ a.x < b.x + b.width /\ b.x < a.x + a.width
  /\ a.y < b.y + b.height /\ b.y < a.y + a.height

\* C23: a rectangle getSourceRect returns has the size of the target rect,
\* lies height + 2 (up, down) or width + 2 (left, right) away from it, wholly
\* inside the canvas, and does not overlap the rect; for a direction whose
\* source would leave the canvas it returns null.
C23_SourceInsideOrNull ==
  norm.kind = "source" =>
    IF C23_Inside(C23_Moved)
    THEN /\ norm.source = C23_Moved
         /\ C23_Inside(norm.source)
         /\ ~C23_Overlap(norm.source, norm.rect)
    ELSE norm.source = NoSource

\* a source below the rect has been returned
C23_Witness ==
  /\ norm.kind = "source"
  /\ norm.direction = "down"
  /\ norm.source # NoSource
  /\ norm.source.y = norm.rect.y + norm.rect.height + 2
  /\ norm.source.y + norm.source.height = norm.height

\* null has been returned for a source that would leave the canvas
C23_Null ==
  /\ norm.kind = "source"
  /\ norm.source = NoSource
  /\ norm.direction = "left"
  /\ norm.rect.x > 0


\* ---------------------------------------------------------------------------
\* SpecClone: clone-mode overlays on a canvas high enough for a rect with
\* pixels three or more away from its edges and a source above or below it
\* ---------------------------------------------------------------------------
CloneWidth == 7

CloneHeight == 16

\* rects of the sizes 1, 3 and 7 at every place of the canvas
CloneRects ==
  { r \in InnerRects(CloneHeight) :
      /\ r.x + r.width <= Px(CloneWidth)
      /\ r.width \in {Px(1), Px(3), Px(7)}
      /\ r.height \in {Px(1), Px(3), Px(7)} }

CloneOverlays ==
  { MakeOverlay(r, [backgroundMode |-> "clone", cloneDirection |-> d], PlainStyle) :
      r \in CloneRects, d \in {"", "up", "down"} }

InitClone ==
  /\ kern = 0
  /\ \E img \in {Frame(CloneWidth, CloneHeight), Gradient(CloneWidth, CloneHeight)} :
       Loaded(img, CloneWidth, CloneHeight, DefaultCtx)

RenderClone == phase = "image" /\ \E o \in CloneOverlays : Render(o)

NextClone == RenderClone

SpecClone == InitClone /\ [][NextClone]_vars

\* the directions of the rendered overlay whose source is inside the canvas
C24_Valid == SelectSeq(C8_Order, C8_InBounds)

\* the background of the rendered overlay was cloned
C24_Cloned ==
  /\ phase = "rendered" /\ overlay.backgroundMode = "clone"
  /\ rect.width > 0 /\ rect.height > 0
  /\ C24_Valid # <<>>

\* the distance of the pixel (x, y) of the rect from the nearest edge, at most 3
C24_Dist(x, y) ==
  Min(3, Min(Min(x, y), Min(rect.width - 1 - x, rect.height - 1 - y)))

\* C24: in the feathered clone every pixel of the rect gets alpha 255 and, per
\* RGB channel, round(source * a + target * (1 - a)) with
\* a = 0.96 + 0.04 * min(1, distEdge / 3) = (72 + min(3, distEdge)) / 75, a
\* value between the source's and the target's; a pixel three or more away
\* from all four edges gets exactly the source pixel's RGB.
C24_FeatheredBlend ==
  C24_Cloned =>
    \A x \in 0..(rect.width - 1), y \in 0..(rect.height - 1) :
      LET out == canvas.data[<<rect.x + x, rect.y + y>>]
          target == image[<<rect.x + x, rect.y + y>>]
          source == image[<<C8_Source(C24_Valid[1]).x + x, C8_Source(C24_Valid[1]).y + y>>]
          t == C24_Dist(x, y)
      IN /\ out[4] = 255
         /\ \A ch \in 1..3 :
              LET exact75 == source[ch] * (72 + t) + target[ch] * (3 - t)
              IN /\ 2 * exact75 - 75 < 150 * out[ch] /\ 150 * out[ch] <= 2 * exact75 + 75
                 /\ Min(source[ch], target[ch]) <= out[ch]
                 /\ out[ch] <= Max(source[ch], target[ch])
                 /\ t = 3 => out[ch] = source[ch]

\* a 7 x 7 rect has been cloned: its middle pixel holds the source's colour,
\* and a pixel on its edge a colour that is neither the source's nor the
\* target's
C24_Witness ==
  /\ C24_Cloned
  /\ rect.width = 7 /\ rect.height = 7
  /\ canvas.data[<<rect.x + 3, rect.y + 3>>][1]
       = image[<<C8_Source(C24_Valid[1]).x + 3, C8_Source(C24_Valid[1]).y + 3>>][1]
  /\ \E x \in 0..6 :
       /\ canvas.data[<<rect.x + x, rect.y>>][1]
            # image[<<C8_Source(C24_Valid[1]).x + x, C8_Source(C24_Valid[1]).y>>][1]
       /\ canvas.data[<<rect.x + x, rect.y>>][1] # image[<<rect.x + x, rect.y>>][1]


\* ---------------------------------------------------------------------------
\* SpecTwice: renderTextOverlay called a second time on the canvas the first
\* call left
\* ---------------------------------------------------------------------------
RenderAgain ==
  /\ phase = "rendered"
  /\ \E S \in {renderTextOverlay(HostState(ctx), overlay)} :
        /\ canvas' = [canvas EXCEPT !.data = S.data]
        /\ ctx' = S.ctx
        /\ calls' = S.calls
  /\ norm' = [kind |-> "once", data |-> canvas.data]
  /\ phase' = "rendered twice"
  /\ UNCHANGED <<image, kern, overlay, rect, entry, fresh, fit, measure, slide, sites, form,
                 app, editor, settings>>

NextTwice == RenderSlide \/ RenderAgain

SpecTwice == Init /\ [][NextTwice]_vars

\* C26: rendering is idempotent: a second renderTextOverlay of the same
\* overlay leaves the pixels the first call left, in every background mode.
C26_Idempotent ==
  phase = "rendered twice" => canvas.data = norm.data

\* the second call found no clone source, or filled a solid colour
C26_NoClone ==
  \/ overlay.backgroundMode # "clone"
  \/ SelectSeq(C8_Order, C8_InBounds) = <<>>

\* a second call leaves the pixels alone when the background is a flat fill
C26_IdempotentWithoutClone ==
  (phase = "rendered twice" /\ C26_NoClone) => canvas.data = norm.data

\* a cloned background moved closer to its source in the second call
C26_CloneDrifts ==
  /\ phase = "rendered twice"
  /\ ~C26_NoClone
  /\ canvas.data # norm.data


(***************************************************************************)
(* SpecApp: the App's slides and selection and the EditorCanvas mounted on *)
(* the active slide, driven by uploads, the toolbar, the Sidebar and the   *)
(* mouse.  The user is logged in, no modal covers the page, and the files  *)
(* uploaded are PDFs.                                                      *)
(***************************************************************************)
\* useState<string | null>(null): no overlay selected
NoId == 0

\* ids Math.random().toString(36) can give an overlay
OverlayIds == {1, 2}

\* overlays on all slides together
MaxApplied == 2

\* pages of an uploaded PDF
PdfPages == 2

\* places on the slide a rect can be at and the mouse can point at
Places == {0, 1}

\* replacement texts the Sidebar can commit
NewTexts == {0, 1}

\* the data URL of page i of the PDF is i
\* useState<HTMLImageElement | null>(null)
NoImage == -1

NoComposite == [image |-> NoImage, slide |-> NoImage, overlays |-> <<>>]

InitialApp ==
  [slides |-> <<>>, activeSlideIdx |-> 0, selection |-> "null",
   selectedOverlayId |-> NoId, isProcessing |-> FALSE]

\* the state of an EditorCanvas just mounted
InitialEditor ==
  [mounted |-> TRUE, selection |-> "null",
   isDrawing |-> FALSE, isResizingSelection |-> FALSE,
   isDraggingOverlay |-> FALSE, isPanning |-> FALSE,
   dragType |-> "null", startPoint |-> FALSE,
   image |-> NoImage, loading |-> {}, composed |-> NoComposite]

\* no EditorCanvas is rendered
Unmounted == [InitialEditor EXCEPT !.mounted = FALSE]

\* const activeSlide = slides[activeSlideIdx]
HasActiveSlide(a) == a.activeSlideIdx < Len(a.slides)

activeSlide(a) == a.slides[a.activeSlideIdx + 1]

ActiveOverlays(a) == IF HasActiveSlide(a) THEN activeSlide(a).overlays ELSE <<>>

\* the mutant replaces the overlays of every slide
SetEveryOverlays(a, overlays) ==
  [a EXCEPT !.slides = [i \in DOMAIN a.slides |-> [a.slides[i] EXCEPT !.overlays = overlays]]]

\* prev.map((s, idx) => (idx === activeSlideIdx ? { ...s, overlays } : s))
SetActiveOverlays(a, overlays) ==
  [a EXCEPT !.slides =
     [i \in DOMAIN a.slides |->
        IF i - 1 = a.activeSlideIdx THEN [a.slides[i] EXCEPT !.overlays = overlays]
        ELSE a.slides[i]]]

RECURSIVE TotalOverlays(_)
TotalOverlays(slides) ==
  IF slides = <<>> THEN 0 ELSE Len(slides[1].overlays) + TotalOverlays(Tail(slides))

\* isProcessing ? ... : slides.length > 0 && activeSlide ? <EditorCanvas .../> : ...
Renders(a) == ~a.isProcessing /\ Len(a.slides) > 0 /\ HasActiveSlide(a)

\* draw: without an image it returns; else the image and the overlays of the
\* slide prop are composed
Drawn(a, e) ==
  IF e.image = NoImage THEN e
  ELSE [e EXCEPT !.composed = [image |-> e.image, slide |-> activeSlide(a).dataUrl,
                               overlays |-> activeSlide(a).overlays]]

\* the render that follows a handler, and its effects: the EditorCanvas is
\* unmounted, mounted anew or kept; a changed slide.dataUrl starts loading
\* the image; draw runs
Commit(a, e) ==
  IF ~Renders(a) THEN Unmounted
  ELSE LET kept == editor.mounted
           base == IF kept THEN e ELSE InitialEditor
           url == activeSlide(a).dataUrl
           loads == ~kept \/ activeSlide(app).dataUrl # url
       IN Drawn(a, IF loads THEN [base EXCEPT !.loading = @ \cup {url}] ELSE base)

AppUnchanged ==
  UNCHANGED <<image, canvas, ctx, kern, overlay, rect, calls, entry, fresh, phase, fit,
              measure, norm, slide, sites, form, settings>>

\* the handler left the App's state a and the EditorCanvas's state e
Step(a, e) ==
  /\ app' = a
  /\ editor' = Commit(a, e)
  /\ AppUnchanged

InitApp ==
  /\ image = <<>>
  /\ canvas = [width |-> 0, height |-> 0, data |-> <<>>]
  /\ ctx = DefaultCtx
  /\ kern = 0
  /\ overlay = NoOverlay
  /\ rect = NoRect
  /\ calls = <<>>
  /\ entry = DefaultCtx
  /\ fresh = <<>>
  /\ phase = "app"
  /\ fit = NoFit
  /\ measure = NoMeasure
  /\ norm = NoNorm
  /\ slide = NoSlide
  /\ sites = NoSites
  /\ form = NoForm
  /\ app = InitialApp
  /\ editor = Unmounted
  /\ settings = NoSettings

\* handleFileUpload with a PDF, up to its await; one upload at a time
handleFileUpload ==
  /\ ~app.isProcessing
  /\ Step([app EXCEPT !.isProcessing = TRUE], editor)

\* handleFileUpload after `await convertPdfToImages(file)`
handleFileUploadConverted ==
  /\ app.isProcessing
  /\ \E pages \in 1..PdfPages :
       Step([app EXCEPT !.slides = [i \in 1..pages |-> [dataUrl |-> i, overlays |-> <<>>]],
                        !.activeSlideIdx = 0,
                        !.selectedOverlayId = NoId,
                        !.selection = "null",
                        !.isProcessing = FALSE],
            editor)

\* Sidebar handleApply -> handleApplyOverlay
handleApplyOverlay ==
  /\ app.selection = "rect"
  /\ Len(app.slides) > 0
  /\ TotalOverlays(app.slides) < MaxApplied
  /\ \E id \in OverlayIds, place \in Places :
       LET o == [id |-> id, rect |-> place, newText |-> 0]
       IN Step([SetActiveOverlays(app, Append(ActiveOverlays(app), o))
                  EXCEPT !.selection = "null", !.selectedOverlayId = id],
               editor)

\* s.overlays.map((ov) => (ov.id === overlayId ? { ...ov, ...updates } : ov))
UpdateOverlay(overlays, overlayId, newText) ==
  [i \in DOMAIN overlays |->
     IF overlays[i].id = overlayId THEN [overlays[i] EXCEPT !.newText = newText]
     ELSE overlays[i]]

\* Sidebar handleApplyEdit -> handleUpdateSelectedOverlay
handleUpdateSelectedOverlay ==
  /\ app.selectedOverlayId # NoId
  /\ HasActiveSlide(app)
  /\ \E newText \in NewTexts :
       Step(SetActiveOverlays(app, UpdateOverlay(ActiveOverlays(app),
                                                 app.selectedOverlayId, newText)),
            editor)

\* next.pop()
Pop(overlays) == SubSeq(overlays, 1, Len(overlays) - 1)

handleUndo ==
  Step([(IF Len(ActiveOverlays(app)) > 0
         THEN SetActiveOverlays(app, Pop(ActiveOverlays(app)))
         ELSE app)
          EXCEPT !.selectedOverlayId = NoId],
       editor)

clearCurrentSlide ==
  Step([SetActiveOverlays(app, <<>>) EXCEPT !.selectedOverlayId = NoId], editor)

\* setActiveSlideIdx((p) => p - 1)
previousSlide ==
  /\ editor.mounted
  /\ app.activeSlideIdx # 0
  /\ Step([app EXCEPT !.activeSlideIdx = @ - 1], editor)

\* setActiveSlideIdx((p) => p + 1)
nextSlide ==
  /\ editor.mounted
  /\ app.activeSlideIdx # Len(app.slides) - 1
  /\ Step([app EXCEPT !.activeSlideIdx = @ + 1], editor)

\* onSelectionChange of App
onSelectionChange(a, selection) ==
  [a EXCEPT !.selection = selection,
            !.selectedOverlayId = IF selection # "null" THEN NoId ELSE @]

\* [...slide.overlays].reverse().find((o) => isPointInRect(p, o.rect)): the
\* index of the topmost overlay at p, 0 for none
RECURSIVE ClickedOverlay(_, _)
ClickedOverlay(overlays, p) ==
  IF overlays = <<>> THEN 0
  ELSE IF overlays[Len(overlays)].rect = p THEN Len(overlays)
  ELSE ClickedOverlay(Pop(overlays), p)

\* handleMouseDown with the button e.button at the place p, on a handle of
\* the selection or not; the space bar is up, and which buttons are held is
\* left to the host
handleMouseDown ==
  /\ editor.mounted
  /\ \E button \in {0, 1}, p \in Places, onHandle \in BOOLEAN :
       LET clicked == ClickedOverlay(ActiveOverlays(app), p)
       IN IF button = 1
          THEN Step(app, [editor EXCEPT !.isPanning = TRUE, !.startPoint = TRUE])
          ELSE IF editor.selection # "null" /\ onHandle
          THEN Step(app, [editor EXCEPT !.isResizingSelection = TRUE,
                                        !.dragType = "handle",
                                        !.startPoint = TRUE])
          ELSE IF clicked # 0
          THEN Step([onSelectionChange(app, "null")
                       EXCEPT !.selectedOverlayId = ActiveOverlays(app)[clicked].id],
                    [editor EXCEPT !.isDraggingOverlay = TRUE,
                                   !.startPoint = TRUE,
                                   !.selection = "null"])
          ELSE Step(onSelectionChange([app EXCEPT !.selectedOverlayId = NoId], "null"),
                    [editor EXCEPT !.isDrawing = TRUE,
                                   !.selection = "small",
                                   !.startPoint = TRUE])

\* slide.overlays.map((ov) => ov.id === selectedOverlayId ? moved : ov)
MoveOverlay(overlays, selectedOverlayId, dx) ==
  [i \in DOMAIN overlays |->
     IF overlays[i].id = selectedOverlayId
     THEN [overlays[i] EXCEPT !.rect = @ + dx]
     ELSE overlays[i]]

\* handleMouseMove by dx, to a selection of the size `size`
handleMouseMove ==
  /\ editor.mounted
  /\ \E dx \in {-1, 1}, size \in {"small", "rect"} :
       IF editor.isPanning /\ editor.startPoint
       THEN Step(app, editor)
       ELSE IF editor.isDrawing /\ editor.startPoint
       THEN Step(app, [editor EXCEPT !.selection = size])
       ELSE IF editor.isResizingSelection /\ editor.selection # "null"
               /\ editor.startPoint /\ editor.dragType # "null"
       THEN Step(app, [editor EXCEPT !.selection = size])
       ELSE IF editor.isDraggingOverlay /\ app.selectedOverlayId # NoId /\ editor.startPoint
       THEN /\ \A i \in DOMAIN ActiveOverlays(app) :
                 ActiveOverlays(app)[i].id = app.selectedOverlayId
                   => ActiveOverlays(app)[i].rect + dx \in Places
            /\ Step(SetActiveOverlays(app, MoveOverlay(ActiveOverlays(app),
                                                       app.selectedOverlayId, dx)),
                    editor)
       ELSE Step(app, editor)

\* handleMouseUp, also the handler of mouse-leave
handleMouseUp ==
  /\ editor.mounted
  /\ LET released == [editor EXCEPT !.isDrawing = FALSE,
                                    !.isDraggingOverlay = FALSE,
                                    !.isResizingSelection = FALSE,
                                    !.isPanning = FALSE,
                                    !.startPoint = FALSE]
     IN IF editor.isDrawing \/ editor.isResizingSelection
        THEN IF editor.selection = "small"
             THEN Step(onSelectionChange(app, "null"), [released EXCEPT !.selection = "null"])
             ELSE Step(onSelectionChange(app, editor.selection), released)
        ELSE Step(app, released)

\* img.onload of the EditorCanvas's image effect: setImage(img)
editorImgOnload ==
  /\ editor.mounted
  /\ \E url \in editor.loading :
       Step(app, [editor EXCEPT !.image = url, !.loading = @ \ {url}])

NextApp ==
  \/ handleFileUpload
  \/ handleFileUploadConverted
  \/ handleApplyOverlay
  \/ handleUpdateSelectedOverlay
  \/ handleUndo
  \/ clearCurrentSlide
  \/ previousSlide
  \/ nextSlide
  \/ handleMouseDown
  \/ handleMouseMove
  \/ handleMouseUp
  \/ editorImgOnload

SpecApp == InitApp /\ [][NextApp]_vars


\* the overlays of the active slide before and after the step
C25_Before == ActiveOverlays(app)

C25_After == IF HasActiveSlide(app) THEN app'.slides[app.activeSlideIdx + 1].overlays ELSE <<>>

\* the step keeps the slides in number and image and leaves the overlays of
\* every slide but the active one alone
C25_OthersKept ==
  /\ Len(app'.slides) = Len(app.slides)
  /\ \A i \in DOMAIN app.slides :
       /\ app'.slides[i].dataUrl = app.slides[i].dataUrl
       /\ i - 1 # app.activeSlideIdx => app'.slides[i].overlays = app.slides[i].overlays

C25_Appended ==
  /\ Len(C25_After) = Len(C25_Before) + 1
  /\ \A i \in DOMAIN C25_Before : C25_After[i] = C25_Before[i]

C25_LastRemoved ==
  IF C25_Before = <<>> THEN C25_After = <<>>
  ELSE /\ Len(C25_After) = Len(C25_Before) - 1
       /\ \A i \in DOMAIN C25_After : C25_After[i] = C25_Before[i]

C25_OnlyMatchingChanged ==
  /\ Len(C25_After) = Len(C25_Before)
  /\ \A i \in DOMAIN C25_Before :
       /\ C25_After[i].id = C25_Before[i].id
       /\ C25_Before[i].id # app.selectedOverlayId => C25_After[i] = C25_Before[i]

\* C25: over any sequence of operations, apply appends the overlay as the
\* last of the active slide's list; undo removes exactly the last overlay of
\* the active slide and changes nothing on an empty list; clear empties the
\* active slide's list; an edit or a drag changes only overlays with the
\* selected id and keeps the order; none changes another slide's overlays.
C25_OverlayLifecycle ==
  [][ /\ handleApplyOverlay => (C25_Appended /\ C25_OthersKept)
      /\ handleUndo => (C25_LastRemoved /\ C25_OthersKept)
      /\ clearCurrentSlide => (C25_After = <<>> /\ C25_OthersKept)
      /\ handleUpdateSelectedOverlay => (C25_OnlyMatchingChanged /\ C25_OthersKept)
      /\ handleMouseMove => (C25_OnlyMatchingChanged /\ C25_OthersKept) ]_vars

\* two overlays were applied to the second slide, the second of them was
\* dragged and edited and the first was not; the first slide has none
C25_Witness ==
  /\ Len(app.slides) = 2
  /\ app.activeSlideIdx = 1
  /\ app.slides[1].overlays = <<>>
  /\ app.slides[2].overlays = << [id |-> 1, rect |-> 0, newText |-> 0],
                                 [id |-> 2, rect |-> 1, newText |-> 1] >>
  /\ app.selectedOverlayId = 2
  /\ editor.isDraggingOverlay


\* C27: whenever draw composes overlays, the base image on the compose canvas
\* is the loaded image of the slide whose overlays are rendered on it, also
\* while the image of a newly active slide is loading.
C27_ImageOfRenderedSlide ==
  editor.composed.image = editor.composed.slide

\* the overlays of the newly active slide were drawn on the image of the
\* slide shown before, while the new image is loading
C27_PreviousImageNewOverlays ==
  /\ editor.mounted
  /\ editor.composed.overlays # <<>>
  /\ editor.composed.overlays = ActiveOverlays(app)
  /\ editor.composed.slide = activeSlide(app).dataUrl
  /\ editor.composed.image # editor.composed.slide
  /\ editor.composed.slide \in editor.loading

\* an image that finished loading late replaced the active slide's image, and
\* nothing is loading any more
C27_LateImageStays ==
  /\ editor.mounted
  /\ editor.composed.overlays # <<>>
  /\ editor.composed.image # editor.composed.slide
  /\ editor.loading = {}


\* C28: in every reachable state selectedOverlayId is null or the id of an
\* overlay of the active slide.
C28_SelectedOverlayExists ==
  \/ app.selectedOverlayId = NoId
  \/ \E i \in DOMAIN ActiveOverlays(app) : ActiveOverlays(app)[i].id = app.selectedOverlayId

\* the overlay selected on one slide is still selected on another slide that
\* has no overlay of that id
C28_SelectionSurvivesNavigation ==
  /\ app.selectedOverlayId # NoId
  /\ Len(app.slides) = 2
  /\ \E i \in DOMAIN app.slides :
       /\ i - 1 # app.activeSlideIdx
       /\ \E k \in DOMAIN app.slides[i].overlays :
            app.slides[i].overlays[k].id = app.selectedOverlayId
  /\ ActiveOverlays(app) = <<>>

\* without the slide navigation buttons the selected id is always one of the
\* active slide
C28_SelectedExistsOnFirstSlide ==
  app.activeSlideIdx = 0 /\ (\A i \in DOMAIN app.slides : i > 1 => app.slides[i].overlays = <<>>)
    => C28_SelectedOverlayExists


\* the interaction modes that are on
C29_Active ==
  { m \in {"isDrawing", "isResizingSelection", "isDraggingOverlay", "isPanning"} : editor[m] }

\* C29: at most one of isDrawing, isResizingSelection, isDraggingOverlay and
\* isPanning is on, for every sequence of mouse events, a second mouse-down
\* with another button included.
C29_OneModeAtATime ==
  Cardinality(C29_Active) <= 1

\* a mode is on together with panning: the middle button went down while the
\* left one was held
C29_TwoModes ==
  /\ editor.isPanning
  /\ editor.isDrawing \/ editor.isResizingSelection \/ editor.isDraggingOverlay

\* after mouse-up or mouse-leave the four modes are off and startPoint is null
C29_ReleasedAfterMouseUp ==
  [][handleMouseUp => (editor'.mounted => (C29_Active' = {} /\ ~editor'.startPoint))]_vars

\* a start point is set exactly while a mode is on
C29_StartPointWhileActive ==
  editor.startPoint <=> C29_Active # {}


(***************************************************************************)
(* SpecSettings: login, the account and settings modals and the API-key    *)
(* edit panel of the App                                                   *)
(***************************************************************************)
\* keys in localStorage at start, and values typed into the new-key field
ApiKeys == { <<>>, <<"a">>, <<"b">>, <<" ", "a">> }

\* values of the password field: empty, the settings password, another one
Passwords == { <<>>, <<"p">>, <<"q">> }

\* VITE_SETTINGS_PASSWORD of the build: unset, or set
SettingsPasswords == { <<>>, <<"p">> }

SettingsUnchanged ==
  UNCHANGED <<image, canvas, ctx, kern, overlay, rect, calls, entry, fresh, phase, fit,
              measure, norm, slide, sites, form, app, editor>>

\* `verified` is history: the password was verified in this login session
\* since the settings modal was last opened
InitSettings ==
  /\ image = <<>>
  /\ canvas = [width |-> 0, height |-> 0, data |-> <<>>]
  /\ ctx = DefaultCtx
  /\ kern = 0
  /\ overlay = NoOverlay
  /\ rect = NoRect
  /\ calls = <<>>
  /\ entry = DefaultCtx
  /\ fresh = <<>>
  /\ phase = "settings"
  /\ fit = NoFit
  /\ measure = NoMeasure
  /\ norm = NoNorm
  /\ slide = NoSlide
  /\ sites = NoSites
  /\ form = NoForm
  /\ app = NoApp
  /\ editor = NoEditor
  /\ \E auth \in BOOLEAN, key \in {<<>>, <<"a">>}, pw \in SettingsPasswords :
       settings = [SETTINGS_PASSWORD |-> pw,
                   isAuthenticated |-> auth,
                   showAccountModal |-> FALSE,
                   showSettingsModal |-> FALSE,
                   geminiApiKey |-> key,
                   isApiEditMode |-> FALSE,
                   isApiEditUnlocked |-> FALSE,
                   apiPassword |-> <<>>,
                   apiEditValue |-> <<>>,
                   verified |-> FALSE]

\* the page behind the modals can be clicked
PageShown ==
  settings.isAuthenticated /\ ~settings.showAccountModal /\ ~settings.showSettingsModal

\* handleLogin with credentials that match or do not
handleLogin ==
  /\ ~settings.isAuthenticated
  /\ \E matches \in BOOLEAN :
       settings' = [settings EXCEPT !.isAuthenticated = matches, !.verified = FALSE]
  /\ SettingsUnchanged

\* onClick={() => setShowAccountModal(true)}
openAccountModal ==
  /\ PageShown
  /\ settings' = [settings EXCEPT !.showAccountModal = TRUE]
  /\ SettingsUnchanged

\* onClick={() => setShowAccountModal(false)}
closeAccountModal ==
  /\ settings.isAuthenticated /\ settings.showAccountModal
  /\ settings' = [settings EXCEPT !.showAccountModal = FALSE]
  /\ SettingsUnchanged

handleLogout ==
  /\ settings.isAuthenticated /\ settings.showAccountModal
  /\ settings' = [settings EXCEPT !.isAuthenticated = FALSE,
                                  !.showAccountModal = FALSE,
                                  !.verified = FALSE]
  /\ SettingsUnchanged

\* onClick={() => setShowSettingsModal(true)}
openSettingsModal ==
  /\ PageShown
  /\ settings' = [settings EXCEPT !.showSettingsModal = TRUE, !.verified = FALSE]
  /\ SettingsUnchanged

\* onClick={() => setShowSettingsModal(false)}
closeSettingsModal ==
  /\ settings.isAuthenticated /\ settings.showSettingsModal
  /\ settings' = [settings EXCEPT !.showSettingsModal = FALSE, !.verified = FALSE]
  /\ SettingsUnchanged

\* the settings modal is on top
SettingsShown == settings.isAuthenticated /\ settings.showSettingsModal

OpenedApiEdit(s) ==
  [s EXCEPT !.isApiEditMode = TRUE,
            !.isApiEditUnlocked = FALSE,
            !.apiPassword = <<>>,
            !.apiEditValue = s.geminiApiKey]

openApiEdit ==
  /\ SettingsShown
  /\ settings' = OpenedApiEdit(settings)
  /\ SettingsUnchanged

ClosedApiEdit(s) ==
  [s EXCEPT !.isApiEditMode = FALSE,
            !.isApiEditUnlocked = FALSE,
            !.apiPassword = <<>>,
            !.apiEditValue = <<>>]

closeApiEdit ==
  /\ SettingsShown /\ settings.isApiEditMode
  /\ settings' = ClosedApiEdit(settings)
  /\ SettingsUnchanged

\* onChange={(e) => setApiPassword(e.target.value)}
setApiPassword ==
  /\ SettingsShown /\ settings.isApiEditMode /\ ~settings.isApiEditUnlocked
  /\ \E value \in Passwords : settings' = [settings EXCEPT !.apiPassword = value]
  /\ SettingsUnchanged

verifyApiEditPassword ==
  /\ SettingsShown /\ settings.isApiEditMode /\ ~settings.isApiEditUnlocked
  /\ settings' = IF settings.SETTINGS_PASSWORD = <<>> THEN settings
                 ELSE IF settings.apiPassword # settings.SETTINGS_PASSWORD THEN settings
                 ELSE [settings EXCEPT !.isApiEditUnlocked = TRUE, !.verified = TRUE]
  /\ SettingsUnchanged

\* onChange={(e) => setApiEditValue(e.target.value)}
setApiEditValue ==
  /\ SettingsShown /\ settings.isApiEditMode /\ settings.isApiEditUnlocked
  /\ \E value \in ApiKeys : settings' = [settings EXCEPT !.apiEditValue = value]
  /\ SettingsUnchanged

saveApiKey ==
  /\ SettingsShown /\ settings.isApiEditMode
  /\ settings' = IF ~settings.isApiEditUnlocked THEN settings
                 ELSE ClosedApiEdit([settings EXCEPT !.geminiApiKey = Trim(settings.apiEditValue)])
  /\ SettingsUnchanged

NextSettings ==
  \/ handleLogin
  \/ openAccountModal
  \/ closeAccountModal
  \/ handleLogout
  \/ openSettingsModal
  \/ closeSettingsModal
  \/ openApiEdit
  \/ closeApiEdit
  \/ setApiPassword
  \/ verifyApiEditPassword
  \/ setApiEditValue
  \/ saveApiKey

SpecSettings == InitSettings /\ [][NextSettings]_vars

\* C30: every change of the stored API key is preceded, in the same login
\* session and since the settings modal was last opened, by a successful
\* verification of the settings password; after logout or after closing the
\* modal the editing is locked again.
C30_ChangeNeedsFreshVerification ==
  [][settings'.geminiApiKey # settings.geminiApiKey => settings.verified]_vars

\* the edit panel is unlocked only while the settings modal is open
C30_LockedWhenClosed ==
  settings.isApiEditUnlocked => (settings.isAuthenticated /\ settings.showSettingsModal)

\* the key changes only from an unlocked panel, which only a verification
\* with the settings password of the build has unlocked
C30_ChangeNeedsUnlock ==
  [][settings'.geminiApiKey # settings.geminiApiKey
       => (settings.isApiEditUnlocked /\ settings.SETTINGS_PASSWORD # <<>>)]_vars

\* the modal was closed with the panel unlocked and opened again: the panel
\* is unlocked although no password was verified since
C30_UnlockedAfterReopen ==
  /\ settings.showSettingsModal
  /\ settings.isApiEditMode /\ settings.isApiEditUnlocked
  /\ ~settings.verified

\* logged out with the panel still unlocked
C30_UnlockedAfterLogout ==
  ~settings.isAuthenticated /\ settings.isApiEditUnlocked

====
